---- MODULE Spec2Model ----
(***************************************************************************)
(* Model of the kafka-consumer-it consume loop (internal/delivery/queue),  *)
(* its dual-format decoder and the processors it dispatches to.            *)
(*                                                                         *)
(* Message bytes are identified by what the two library parsers            *)
(* (encoding/json and protobuf) make of them: a payload carries the        *)
(* outcome of json.Unmarshal into the anonymous jsonCmd struct and the     *)
(* outcome of proto.Unmarshal into pb.ImageCommand.                        *)
(*                                                                         *)
(* The kafka-go reader is the environment: FetchMessage hands out the      *)
(* partition's messages in offset order, each once, or fails;              *)
(* CommitMessages succeeds or fails; Close reports no error.  A cancelled  *)
(* context makes a blocked call return the context's error, but a call     *)
(* that finds both a message and the cancellation may return either.       *)
(***************************************************************************)
EXTENDS Integers, Sequences, FiniteSets, TLC

\* ------------------------------------------------------------------ bounds
\* Number of messages the broker delivers in one run.
MaxMsgs == 2
\* Number of FetchMessage failures that are not caused by cancellation.
MaxFetchErrs == 1

\* ------------------------------------------------------- formats, errors
FormatJSON == "json"
FormatProtobuf == "protobuf"
Formats == {FormatJSON, FormatProtobuf}

NilErr == "nil"
ErrJSONSyntax == "json: cannot unmarshal"
ErrProtoParse == "proto: cannot parse invalid wire-format data"
ErrNeither == "failed to decode message: neither JSON nor Protobuf"
ErrInvalidCommandType == "invalid command type: expected *pb.ImageCommand"
ErrIDRequired == "command ID is required"
ErrURLRequired == "image URL is required"

\* ------------------------------------------------------ pb.ImageCommand
COMMAND_TYPE_UNSPECIFIED == "COMMAND_TYPE_UNSPECIFIED"
COMMAND_TYPE_RESIZE == "COMMAND_TYPE_RESIZE"
COMMAND_TYPE_FILTER == "COMMAND_TYPE_FILTER"
COMMAND_TYPE_TRANSFORM == "COMMAND_TYPE_TRANSFORM"
COMMAND_TYPE_ANALYZE == "COMMAND_TYPE_ANALYZE"
COMMAND_TYPE_CROP == "COMMAND_TYPE_CROP"
COMMAND_TYPE_REMOVE_BACKGROUND == "COMMAND_TYPE_REMOVE_BACKGROUND"

CommandTypes ==
    {COMMAND_TYPE_UNSPECIFIED, COMMAND_TYPE_RESIZE, COMMAND_TYPE_FILTER,
     COMMAND_TYPE_TRANSFORM, COMMAND_TYPE_ANALYZE, COMMAND_TYPE_CROP,
     COMMAND_TYPE_REMOVE_BACKGROUND}

\* The oneof "parameters" of pb.ImageCommand; kind "none" is the unset oneof.
NoParams == [kind |-> "none"]

ResizeParameters(w, h, keep) ==
    [kind |-> "resize", width |-> w, height |-> h, maintain_aspect_ratio |-> keep]

FilterParameters(ft, i) ==
    [kind |-> "filter", filter_type |-> ft, intensity |-> i]

TransformParameters(rd, fh, fv) ==
    [kind |-> "transform", rotation_degrees |-> rd, flip_horizontal |-> fh,
     flip_vertical |-> fv]

AnalyzeParameters(ms) ==
    [kind |-> "analyze", models |-> ms]

CropParameters(x, y, w, h) ==
    [kind |-> "crop", x |-> x, y |-> y, width |-> w, height |-> h]

RemoveBackgroundParameters(of, hq) ==
    [kind |-> "remove_background", output_format |-> of, high_quality |-> hq]

ImageCommand(id, url, ct, params) ==
    [id |-> id, image_url |-> url, command |-> ct, parameters |-> params]

ZeroCommand == ImageCommand("", "", COMMAND_TYPE_UNSPECIFIED, NoParams)

\* A Go interface{} value as DecodeCommand returns it: the dynamic type, whether
\* the pointer it holds is nil, and the command pointed to.
IfaceNil == [gotype |-> "nil", ptr |-> "nil", val |-> ZeroCommand]
IfaceCmd(c) == [gotype |-> "*pb.ImageCommand", ptr |-> "set", val |-> c]
\* an interface{} holding a value of another type
IfaceOther(t) == [gotype |-> t, ptr |-> "set", val |-> ZeroCommand]

\* ------------------------------------------------------------ JSON values
JNum(n) == [t |-> "num", n |-> n]
JStr(s) == [t |-> "str", s |-> s]
JBool(b) == [t |-> "bool", b |-> b]
JArr(a) == [t |-> "arr", a |-> a]

\* map[string]interface{}: nil, or a map from keys to JSON values
NilMap == [isnil |-> TRUE, m |-> [none |-> JBool(FALSE)]]
JMap(m) == [isnil |-> FALSE, m |-> m]

Has(params, key, type) ==
    /\ ~params.isnil
    /\ key \in DOMAIN params.m
    /\ params.m[key].t = type

\* Go's int32(f) for a float64 holding an integral value; outside the int32
\* range the amd64 build yields the minimum value.
ToInt32(n) ==
    IF n >= -2147483647 - 1 /\ n <= 2147483647 THEN n ELSE -2147483647 - 1

\* The anonymous struct jsonCmd after json.Unmarshal.
JsonCmd(id, command, url, params) ==
    [ID |-> id, Command |-> command, ImageURL |-> url, Parameters |-> params]

ZeroJsonCmd == JsonCmd("", "", "", NilMap)

\* --------------------------------------------------------------- payloads
\* A payload: the bytes of a Kafka message, given by its two parses.
Payload(jok, j, pok, p) == [jsonOK |-> jok, json |-> j, pbOK |-> pok, pb |-> p]

PayloadList == <<
    \* 1: text resize with parameters, not valid binary
    Payload(TRUE, JsonCmd("a", "resize", "u",
                          JMap([width |-> JNum(2), height |-> JNum(0)])),
            FALSE, ZeroCommand),
    \* 2: text with an unrecognised command string, not valid binary
    Payload(TRUE, JsonCmd("b", "unknown_type", "u", NilMap), FALSE, ZeroCommand),
    \* 3: binary crop, not valid text
    Payload(FALSE, ZeroJsonCmd,
            TRUE, ImageCommand("c", "u", COMMAND_TYPE_CROP, CropParameters(0, 0, 1, 1))),
    \* 4: bytes that parse under both formats, to different commands
    Payload(TRUE, JsonCmd("", "analyze", "u", NilMap),
            TRUE, ImageCommand("d", "u", COMMAND_TYPE_FILTER,
                               FilterParameters("grayscale", 0))),
    \* 5: bytes valid in neither format
    Payload(FALSE, ZeroJsonCmd, FALSE, ZeroCommand),
    \* 6: text analyze without parameters, not valid binary
    Payload(TRUE, JsonCmd("e", "analyze", "u", NilMap), FALSE, ZeroCommand),
    \* 7: text filter with an empty image_url, not valid binary
    Payload(TRUE, JsonCmd("f", "filter", "",
                          JMap([filter_type |-> JStr("blur")])),
            FALSE, ZeroCommand)
>>

PayloadIds == 1 .. Len(PayloadList)

\* json.Unmarshal(data, &jsonCmd)
JSONUnmarshal(data) ==
    IF data.jsonOK THEN [v |-> data.json, err |-> NilErr]
    ELSE [v |-> ZeroJsonCmd, err |-> ErrJSONSyntax]

\* proto.Unmarshal(data, cmd)
ProtoUnmarshal(data) ==
    IF data.pbOK THEN [v |-> data.pb, err |-> NilErr]
    ELSE [v |-> ZeroCommand, err |-> ErrProtoParse]

\* ---------------------------------------------------------------- decoder
NumOr(params, key, dflt) ==
    IF Has(params, key, "num") THEN params.m[key].n ELSE dflt

Int32Or(params, key, dflt) ==
    IF Has(params, key, "num") THEN ToInt32(params.m[key].n) ELSE dflt

StrOr(params, key, dflt) ==
    IF Has(params, key, "str") THEN params.m[key].s ELSE dflt

BoolOr(params, key, dflt) ==
    IF Has(params, key, "bool") THEN params.m[key].b ELSE dflt

\* the loop over models: the elements that are strings, in order
RECURSIVE StringsOf(_)
StringsOf(a) ==
    IF a = <<>> THEN <<>>
    ELSE IF Head(a).t = "str" THEN <<Head(a).s>> \o StringsOf(Tail(a))
    ELSE StringsOf(Tail(a))

ModelsOf(params) ==
    IF Has(params, "models", "arr") THEN StringsOf(params.m["models"].a) ELSE <<>>

\* CommandTypeOf without the cases for crop and remove_background
CommandTypeOf_FourNames(command) ==
    CASE command = "resize" -> COMMAND_TYPE_RESIZE
      [] command = "filter" -> COMMAND_TYPE_FILTER
      [] command = "transform" -> COMMAND_TYPE_TRANSFORM
      [] command = "analyze" -> COMMAND_TYPE_ANALYZE
      [] OTHER -> COMMAND_TYPE_UNSPECIFIED

\* the switch on jsonCmd.Command: the command type
CommandTypeOf(command) ==
    CASE command = "resize" -> COMMAND_TYPE_RESIZE
      [] command = "filter" -> COMMAND_TYPE_FILTER
      [] command = "transform" -> COMMAND_TYPE_TRANSFORM
      [] command = "analyze" -> COMMAND_TYPE_ANALYZE
      [] command = "crop" -> COMMAND_TYPE_CROP
      [] command = "remove_background" -> COMMAND_TYPE_REMOVE_BACKGROUND
      [] OTHER -> COMMAND_TYPE_UNSPECIFIED

\* ParametersOf building the resize variant for a crop command
ParametersOf_CropAsResize(command, params) ==
    IF params.isnil THEN NoParams
    ELSE CASE command = "resize" ->
                ResizeParameters(Int32Or(params, "width", 0),
                                 Int32Or(params, "height", 0), FALSE)
           [] command = "filter" ->
                FilterParameters(StrOr(params, "filter_type", ""),
                                 NumOr(params, "intensity", 0))
           [] command = "transform" ->
                TransformParameters(NumOr(params, "rotation_degrees", 0),
                                    BoolOr(params, "flip_horizontal", FALSE),
                                    BoolOr(params, "flip_vertical", FALSE))
           [] command = "analyze" -> AnalyzeParameters(ModelsOf(params))
           [] command = "crop" ->
                ResizeParameters(Int32Or(params, "width", 0),
                                 Int32Or(params, "height", 0), FALSE)
           [] command = "remove_background" ->
                RemoveBackgroundParameters(StrOr(params, "output_format", ""),
                                           BoolOr(params, "high_quality", FALSE))
           [] OTHER -> NoParams

\* the switch on jsonCmd.Command: the parameters oneof
ParametersOf(command, params) ==
    IF params.isnil THEN NoParams
    ELSE CASE command = "resize" ->
                ResizeParameters(Int32Or(params, "width", 0),
                                 Int32Or(params, "height", 0), FALSE)
           [] command = "filter" ->
                FilterParameters(StrOr(params, "filter_type", ""),
                                 NumOr(params, "intensity", 0))
           [] command = "transform" ->
                TransformParameters(NumOr(params, "rotation_degrees", 0),
                                    BoolOr(params, "flip_horizontal", FALSE),
                                    BoolOr(params, "flip_vertical", FALSE))
           [] command = "analyze" -> AnalyzeParameters(ModelsOf(params))
           [] command = "crop" ->
                CropParameters(Int32Or(params, "x", 0), Int32Or(params, "y", 0),
                               Int32Or(params, "width", 0),
                               Int32Or(params, "height", 0))
           [] command = "remove_background" ->
                RemoveBackgroundParameters(StrOr(params, "output_format", ""),
                                           BoolOr(params, "high_quality", FALSE))
           [] OTHER -> NoParams

\* Decoder.decodeJSON: (*pb.ImageCommand, error); ptr "nil" is the nil pointer
decodeJSON(data) ==
    LET j == JSONUnmarshal(data) IN
    IF j.err # NilErr
    THEN [ptr |-> "nil", val |-> ZeroCommand, err |-> j.err]
    ELSE [ptr |-> "set",
          val |-> ImageCommand(j.v.ID, j.v.ImageURL, CommandTypeOf(j.v.Command),
                               ParametersOf(j.v.Command, j.v.Parameters)),
          err |-> NilErr]

\* DecodeCommand without the fallback from the binary to the text format
DecodeCommand_NoFallback(preferredFormat, data) ==
    LET pbres == ProtoUnmarshal(data)
        js == decodeJSON(data)
        jsIface == [gotype |-> "*pb.ImageCommand", ptr |-> js.ptr, val |-> js.val]
    IN
    IF preferredFormat = FormatProtobuf
    THEN IF pbres.err = NilErr
         THEN [cmd |-> IfaceCmd(pbres.v), err |-> NilErr, tried |-> <<FormatProtobuf>>]
         ELSE [cmd |-> IfaceNil, err |-> pbres.err, tried |-> <<FormatProtobuf>>]
    ELSE IF js.err = NilErr
         THEN [cmd |-> jsIface, err |-> NilErr, tried |-> <<FormatJSON>>]
         ELSE IF pbres.err # NilErr
              THEN [cmd |-> IfaceNil, err |-> ErrNeither,
                    tried |-> <<FormatJSON, FormatProtobuf>>]
              ELSE [cmd |-> IfaceCmd(pbres.v), err |-> NilErr,
                    tried |-> <<FormatJSON, FormatProtobuf>>]

\* Decoder.DecodeCommand: the interface{} value, the error, and the decoders
\* it called, in call order.
DecodeCommand(preferredFormat, data) ==
    LET pbres == ProtoUnmarshal(data)
        js == decodeJSON(data)
        jsIface == [gotype |-> "*pb.ImageCommand", ptr |-> js.ptr, val |-> js.val]
    IN
    IF preferredFormat = FormatProtobuf
    THEN IF pbres.err = NilErr
         THEN [cmd |-> IfaceCmd(pbres.v), err |-> NilErr, tried |-> <<FormatProtobuf>>]
         ELSE [cmd |-> jsIface, err |-> js.err,
               tried |-> <<FormatProtobuf, FormatJSON>>]
    ELSE IF js.err = NilErr
         THEN [cmd |-> jsIface, err |-> NilErr, tried |-> <<FormatJSON>>]
         ELSE IF pbres.err # NilErr
              THEN [cmd |-> IfaceNil, err |-> ErrNeither,
                    tried |-> <<FormatJSON, FormatProtobuf>>]
              ELSE [cmd |-> IfaceCmd(pbres.v), err |-> NilErr,
                    tried |-> <<FormatJSON, FormatProtobuf>>]

\* ------------------------------------------------------- image operations
\* A decoded image: its bounds and the imaging operations applied to it.
Image(w, h, ops) == [w |-> w, h |-> h, ops |-> ops]

Max(a, b) == IF a >= b THEN a ELSE b

\* floor(a/b + 0.5) for a >= 0, b > 0
RoundDiv(a, b) == (2 * a + b) \div (2 * b)

\* imaging.Resize: a zero dimension is derived from the aspect ratio, a
\* negative or doubly-zero request yields the empty image.
ImagingResize(img, width, height) ==
    IF width < 0 \/ height < 0 \/ (width = 0 /\ height = 0) \/ img.w <= 0 \/ img.h <= 0
    THEN Image(0, 0, <<>>)
    ELSE LET dstW == IF width = 0 THEN Max(1, RoundDiv(height * img.w, img.h)) ELSE width
             dstH == IF height = 0 THEN Max(1, RoundDiv(width * img.h, img.w)) ELSE height
         IN Image(dstW, dstH, Append(img.ops, "resize"))

\* imaging.Fit: scale down to fit within the bounds, keeping the aspect ratio
ImagingFit(img, width, height) ==
    IF width <= 0 \/ height <= 0 \/ img.w <= 0 \/ img.h <= 0 THEN Image(0, 0, <<>>)
    ELSE IF img.w <= width /\ img.h <= height THEN Image(img.w, img.h, Append(img.ops, "fit"))
    ELSE IF img.w * height > width * img.h
         THEN ImagingResize(img, width, (width * img.h) \div img.w)
         ELSE ImagingResize(img, (height * img.w) \div img.h, height)

\* The result of a processX method: the image, the error, and the calls it
\* made into the imaging library.
OpResult(img, e, lib) == [img |-> img, err |-> e, lib |-> lib]

\* processResize keeping the aspect ratio whatever maintain_aspect_ratio says
processResize_AlwaysFit(img, params) ==
    IF params.kind # "resize"
    THEN OpResult(img, "resize parameters required", <<>>)
    ELSE IF params.width <= 0 /\ params.height <= 0
    THEN OpResult(img, "at least one of width or height must be positive", <<>>)
    ELSE IF params.width = 0
    THEN OpResult(ImagingResize(img, 0, params.height), NilErr, <<"Resize">>)
    ELSE IF params.height = 0
    THEN OpResult(ImagingResize(img, params.width, 0), NilErr, <<"Resize">>)
    ELSE OpResult(ImagingFit(img, params.width, params.height), NilErr, <<"Fit">>)

\* RealImageProcessor.processResize
processResize(img, params) ==
    IF params.kind # "resize"
    THEN OpResult(img, "resize parameters required", <<>>)
    ELSE IF params.width <= 0 /\ params.height <= 0
    THEN OpResult(img, "at least one of width or height must be positive", <<>>)
    ELSE IF params.maintain_aspect_ratio \/ params.width = 0 \/ params.height = 0
    THEN IF params.width = 0
         THEN OpResult(ImagingResize(img, 0, params.height), NilErr, <<"Resize">>)
         ELSE IF params.height = 0
         THEN OpResult(ImagingResize(img, params.width, 0), NilErr, <<"Resize">>)
         ELSE OpResult(ImagingFit(img, params.width, params.height), NilErr, <<"Fit">>)
    ELSE OpResult(ImagingResize(img, params.width, params.height), NilErr, <<"Resize">>)

FilterTypes ==
    {"blur", "sharpen", "grayscale", "invert", "brightness", "contrast", "saturation"}

\* The result of processFilter: as OpResult, with the numeric argument handed
\* to the imaging library. Intensities are carried in hundredths (100 is the
\* float 1.0); sigma is in hundredths too, an adjustment is in whole units.
FilterResult(img, e, lib, arg) == [img |-> img, err |-> e, lib |-> lib, arg |-> arg]

\* the filters that take an adjustment computed from the intensity
AdjustFilters == {"brightness", "contrast", "saturation"}

\* processFilter: the default rule for the intensity
EffectiveIntensity(intensity) == IF intensity <= 0 THEN 100 ELSE intensity

\* processFilter: sigma := 3.0 * intensity
Sigma(intensity) == 3 * intensity

\* processFilter: adjustment := intensity*200 - 100
Adjustment(intensity) == (intensity * 200) \div 100 - 100

\* RealImageProcessor.processFilter
processFilter(img, params) ==
    IF params.kind # "filter"
    THEN OpResult(img, "filter parameters required", <<>>)
    ELSE LET intensity == EffectiveIntensity(params.intensity)
             done == Image(img.w, img.h, Append(img.ops, params.filter_type))
         IN  CASE params.filter_type \in {"blur", "sharpen"} ->
                    FilterResult(done, NilErr, <<params.filter_type>>, Sigma(intensity))
               [] params.filter_type \in {"grayscale", "invert"} ->
                    OpResult(done, NilErr, <<params.filter_type>>)
               [] params.filter_type \in AdjustFilters ->
                    FilterResult(done, NilErr, <<params.filter_type>>,
                                 Adjustment(intensity))
               [] OTHER -> OpResult(img, "unknown filter type", <<>>)

\* imaging.Rotate for the quarter turns; other angles keep the bounds here
ImagingRotate(img, deg) ==
    IF deg % 180 = 90 THEN Image(img.h, img.w, Append(img.ops, "rotate"))
    ELSE Image(img.w, img.h, Append(img.ops, "rotate"))

\* processTransform flipping before it rotates
processTransform_FlipFirst(img, params) ==
    IF params.kind # "transform" THEN OpResult(img, NilErr, <<>>)
    ELSE LET r1 == IF params.flip_horizontal
                   THEN Image(img.w, img.h, Append(img.ops, "flipH")) ELSE img
             r2 == IF params.flip_vertical
                   THEN Image(r1.w, r1.h, Append(r1.ops, "flipV")) ELSE r1
             r3 == IF params.rotation_degrees # 0
                   THEN ImagingRotate(r2, params.rotation_degrees) ELSE r2
         IN OpResult(r3, NilErr,
                     (IF params.flip_horizontal THEN <<"FlipH">> ELSE <<>>)
                     \o (IF params.flip_vertical THEN <<"FlipV">> ELSE <<>>)
                     \o (IF params.rotation_degrees # 0 THEN <<"Rotate">> ELSE <<>>))

\* RealImageProcessor.processTransform
processTransform(img, params) ==
    IF params.kind # "transform" THEN OpResult(img, NilErr, <<>>)
    ELSE LET r1 == IF params.rotation_degrees # 0
                   THEN ImagingRotate(img, params.rotation_degrees) ELSE img
             r2 == IF params.flip_horizontal
                   THEN Image(r1.w, r1.h, Append(r1.ops, "flipH")) ELSE r1
             r3 == IF params.flip_vertical
                   THEN Image(r2.w, r2.h, Append(r2.ops, "flipV")) ELSE r2
         IN OpResult(r3, NilErr,
                     (IF params.rotation_degrees # 0 THEN <<"Rotate">> ELSE <<>>)
                     \o (IF params.flip_horizontal THEN <<"FlipH">> ELSE <<>>)
                     \o (IF params.flip_vertical THEN <<"FlipV">> ELSE <<>>))

\* processCrop cutting from (x, y) to the far corner of the image
processCrop_ToCorner(img, params) ==
    IF params.kind # "crop"
    THEN OpResult(img, "crop parameters required", <<>>)
    ELSE IF params.width <= 0 \/ params.height <= 0
    THEN OpResult(img, "crop width and height must be positive", <<>>)
    ELSE IF params.x < 0 \/ params.y < 0 \/ params.x + params.width > img.w
            \/ params.y + params.height > img.h
    THEN OpResult(img, "crop region out of bounds", <<>>)
    ELSE OpResult(Image(img.w - params.x, img.h - params.y, Append(img.ops, "crop")),
                  NilErr, <<"Crop">>)

\* processCrop without the bounds check: imaging.Crop clips the region
processCrop_Clips(img, params) ==
    IF params.kind # "crop"
    THEN OpResult(img, "crop parameters required", <<>>)
    ELSE IF params.width <= 0 \/ params.height <= 0
    THEN OpResult(img, "crop width and height must be positive", <<>>)
    ELSE OpResult(Image(params.width, params.height, Append(img.ops, "crop")), NilErr,
                  <<"Crop">>)

\* RealImageProcessor.processCrop
processCrop(img, params) ==
    IF params.kind # "crop"
    THEN OpResult(img, "crop parameters required", <<>>)
    ELSE IF params.width <= 0 \/ params.height <= 0
    THEN OpResult(img, "crop width and height must be positive", <<>>)
    ELSE IF params.x < 0 \/ params.y < 0 \/ params.x + params.width > img.w
            \/ params.y + params.height > img.h
    THEN OpResult(img, "crop region out of bounds", <<>>)
    ELSE OpResult(Image(params.width, params.height, Append(img.ops, "crop")), NilErr,
                  <<"Crop">>)

\* imaging.Encode(&buf, img, imaging.PNG): the PNG encoder rejects an empty image
EncodePNG(img) == IF img.w <= 0 \/ img.h <= 0 THEN "png: invalid format" ELSE NilErr

\* ------------------------------------------------------------- processors
\* What the world does during one Process call: the download either fails or
\* yields an image, and the storage upload succeeds or fails; a failed upload
\* may leave the object it had begun to write (LocalStorage.Upload has created
\* the file before io.Copy fails).
Env(dl, img, up, left) ==
    [downloadOK |-> dl, img |-> img, uploadOK |-> up, leftover |-> left]

\* S3Storage, the storage NewRealImageProcessor wires in: PutObject is atomic
Envs ==
    {Env(FALSE, Image(0, 0, <<>>), TRUE, FALSE),
     Env(TRUE, Image(4, 2, <<>>), TRUE, FALSE),
     Env(TRUE, Image(4, 2, <<>>), FALSE, FALSE)}

\* any storage.Storage implementation of the repository
StorageEnvs ==
    Envs \cup {Env(TRUE, Image(4, 2, <<>>), FALSE, TRUE)}

\* usecase.ProcessingResult (without the measured time)
ProcessingResult(id, ok, url, msg) ==
    [CommandID |-> id, Success |-> ok, OutputUrl |-> url, ErrorMessage |-> msg]

\* metrics.RecordMessageProcessed / metrics.ObserveMessageProcessingDuration
Processed(ct, status) == [metric |-> "processed", command |-> ct, status |-> status]
Duration(ct) == [metric |-> "duration", command |-> ct, status |-> ""]

\* S3Storage.Upload: the address reported for a key
StorageURL(key) == <<"s3://bucket/", key>>
NoURL == <<>>

\* The outcome of a Process call: the results it built, the error it returned,
\* the metric observations it made, the keys it uploaded, the commands it
\* recorded, and the calls it made to the network, the imaging library and
\* the storage, in order.
Outcome(results, err, obs, uploads, recorded, calls) ==
    [results |-> results, err |-> err, obs |-> obs, uploads |-> uploads,
     recorded |-> recorded, calls |-> calls]

\* FailedOutcome building no result on a failure
FailedOutcome_NoResult(id, msg, e, obs, calls) ==
    Outcome(<<>>, e, obs, <<>>, <<>>, calls)

\* FailedOutcome making no processed-count observation
FailedOutcome_NoMetric(id, msg, e, obs, calls) ==
    Outcome(<<ProcessingResult(id, FALSE, NoURL, msg)>>, e, <<>>, <<>>, <<>>, calls)

\* FailedOutcome leaving the error message empty
FailedOutcome_NoMessage(id, msg, e, obs, calls) ==
    Outcome(<<ProcessingResult(id, FALSE, NoURL, "")>>, e, obs, <<>>, <<>>, calls)

\* RealImageProcessor.Process on a failure: the failed result together with
\* the error
FailedOutcome(id, msg, e, obs, calls) ==
    Outcome(<<ProcessingResult(id, FALSE, NoURL, msg)>>, e, obs, <<>>, <<>>, calls)

ErrUnknownCommandType == "unknown command type"

\* Dispatch treating an unknown command type as a no-op
Dispatch_UnknownPasses(cmd, img) ==
    CASE cmd.command = COMMAND_TYPE_RESIZE -> processResize(img, cmd.parameters)
      [] cmd.command = COMMAND_TYPE_FILTER -> processFilter(img, cmd.parameters)
      [] cmd.command = COMMAND_TYPE_TRANSFORM -> processTransform(img, cmd.parameters)
      [] cmd.command = COMMAND_TYPE_CROP -> processCrop(img, cmd.parameters)
      [] cmd.command = COMMAND_TYPE_REMOVE_BACKGROUND ->
            OpResult(Image(img.w, img.h, Append(img.ops, "grayscale")), NilErr,
                     <<"Grayscale">>)
      [] OTHER -> OpResult(img, NilErr, <<>>)

\* the switch on cmd.Command of RealImageProcessor.Process
Dispatch(cmd, img) ==
    CASE cmd.command = COMMAND_TYPE_RESIZE -> processResize(img, cmd.parameters)
      [] cmd.command = COMMAND_TYPE_FILTER -> processFilter(img, cmd.parameters)
      [] cmd.command = COMMAND_TYPE_TRANSFORM -> processTransform(img, cmd.parameters)
      [] cmd.command = COMMAND_TYPE_CROP -> processCrop(img, cmd.parameters)
      [] cmd.command = COMMAND_TYPE_REMOVE_BACKGROUND ->
            OpResult(Image(img.w, img.h, Append(img.ops, "grayscale")), NilErr,
                     <<"Grayscale">>)
      [] OTHER -> OpResult(img, ErrUnknownCommandType, <<>>)

\* S3Key deriving the key from the command type as well
S3Key_WithType(cmd) == <<cmd.id, cmd.command, ".png">>

\* the storage key of a command's artifact: fmt.Sprintf("%s.png", cmd.Id)
S3Key(cmd) == <<cmd.id, ".png">>

\* Validated downloading the image before it looks at id and image_url
Validated_DownloadFirst(cmd) == <<"download">>

\* the calls made before id and image_url have been checked
Validated(cmd) == <<>>

\* RealImageProcessor.Process when storage.Upload fails: the failed result;
\* nothing is removed from storage
UploadFailed(cmd, env, obs, calls) ==
    Outcome(<<ProcessingResult(cmd.id, FALSE, NoURL, "upload failed")>>,
            "upload error", obs, IF env.leftover THEN <<S3Key(cmd)>> ELSE <<>>,
            <<>>, calls)

\* AnalyzeOutcome going on to encode and upload the unchanged image
AnalyzeOutcome_Stores(cmd, calls) ==
    Outcome(<<ProcessingResult(cmd.id, TRUE, StorageURL(S3Key(cmd)), "")>>, NilErr,
            <<Processed(cmd.command, "success")>>, <<S3Key(cmd)>>, <<>>,
            calls \o <<"encode", "upload">>)

\* RealImageProcessor.Process, case COMMAND_TYPE_ANALYZE: success is returned
\* from inside the switch
AnalyzeOutcome(cmd, calls) ==
    Outcome(<<ProcessingResult(cmd.id, TRUE, NoURL, "")>>, NilErr,
            <<Processed(cmd.command, "success")>>, <<>>, <<>>, calls)

\* RealImageProcessor.Process
RealImageProcess(cmd, env) ==
    LET ct == cmd.command
        fail(msg, e, calls) ==
            FailedOutcome(cmd.id, msg, e, <<Processed(ct, "error")>>, calls)
        op == Dispatch(cmd, env.img)
        s3Key == S3Key(cmd)
        c0 == Validated(cmd)
        c1 == c0 \o <<"download">>
        c2 == c1 \o op.lib
        c3 == c2 \o <<"encode">>
        c4 == c3 \o <<"upload">>
    IN
    IF cmd.id = "" THEN fail(ErrIDRequired, ErrIDRequired, c0)
    ELSE IF cmd.image_url = "" THEN fail(ErrURLRequired, ErrURLRequired, c0)
    ELSE IF ~env.downloadOK THEN fail("download failed", "download error", c1)
    ELSE IF ct = COMMAND_TYPE_ANALYZE THEN AnalyzeOutcome(cmd, c1)
    ELSE IF op.err # NilErr THEN fail(op.err, op.err, c2)
    ELSE IF EncodePNG(op.img) # NilErr
    THEN fail("encode failed", EncodePNG(op.img), c3)
    ELSE IF ~env.uploadOK THEN UploadFailed(cmd, env, <<Processed(ct, "error")>>, c4)
    ELSE Outcome(<<ProcessingResult(cmd.id, TRUE, StorageURL(s3Key), "")>>, NilErr,
                 <<Duration(ct), Processed(ct, "success")>>, <<s3Key>>, <<>>, c4)

\* RealProcessor.Process: the result is dropped, the error returned
RealProcess(cmd, env) == RealImageProcess(cmd, env)

\* StubProcess recording the command before it validates it
StubProcess_RecordsFirst(cmd) ==
    LET ct == cmd.command IN
    IF cmd.id = ""
    THEN Outcome(<<>>, ErrIDRequired, <<Processed(ct, "error")>>, <<>>, <<cmd>>, <<>>)
    ELSE IF cmd.image_url = ""
    THEN Outcome(<<>>, ErrURLRequired, <<Processed(ct, "error")>>, <<>>, <<cmd>>, <<>>)
    ELSE Outcome(<<>>, NilErr, <<Duration(ct), Processed(ct, "success")>>, <<>>,
                 <<cmd>>, <<>>)

\* StubProcessor.Process
StubProcess(cmd) ==
    LET ct == cmd.command IN
    IF cmd.id = ""
    THEN Outcome(<<>>, ErrIDRequired, <<Processed(ct, "error")>>, <<>>, <<>>, <<>>)
    ELSE IF cmd.image_url = ""
    THEN Outcome(<<>>, ErrURLRequired, <<Processed(ct, "error")>>, <<>>, <<>>, <<>>)
    ELSE Outcome(<<>>, NilErr, <<Duration(ct), Processed(ct, "success")>>, <<>>,
                 <<cmd>>, <<>>)

\* Processor.Process of the configured processor
Process(mode, cmd, env) ==
    IF mode = "real" THEN RealProcess(cmd, env) ELSE StubProcess(cmd)

\* ProcessAny handing a value of another type to Process as an empty command
ProcessAny_NoTypeCheck(mode, iface, env) == Process(mode, iface.val, env)

\* StubProcessor.ProcessAny / RealProcessor.ProcessAny
ProcessAny(mode, iface, env) ==
    IF iface.gotype # "*pb.ImageCommand"
    THEN Outcome(<<>>, ErrInvalidCommandType, <<>>, <<>>, <<>>, <<>>)
    ELSE Process(mode, iface.val, env)

\* StubProcessor.GetProcessedCount
GetProcessedCount(recorded) == Len(recorded)

\* StubProcessor.GetLastCommand: nil when nothing has been recorded
GetLastCommand(recorded) ==
    IF Len(recorded) = 0 THEN [ptr |-> "nil", val |-> ZeroCommand]
    ELSE [ptr |-> "set", val |-> recorded[Len(recorded)]]

\* ------------------------------------------------------------------ state
VARIABLES
    preferredFormat,    \* Decoder.preferredFormat
    mode,               \* cfg.ProcessorMode: which Processor the handler holds
    ctxDone,            \* the context passed to Start has been cancelled
    pc,                 \* where Handler.Start / processNextMessage stands
    msg,                \* the message FetchMessage returned
    dec,                \* what DecodeCommand returned for msg
    err,                \* the error processNextMessage returned to Start
    startRet,           \* the value Start returned
    closes,             \* number of calls of reader.Close
    offset,             \* the reader's position: messages fetched so far
    fetchErrs,          \* failed fetches not due to cancellation
    trace,              \* the calls made on reader, decoder and processor
    procOut,            \* outcome of the latest ProcessAny call
    storage,            \* keys present in object storage
    ProcessedCommands,  \* StubProcessor.ProcessedCommands
    call,               \* the latest direct call of Process or DecodeCommand
    server,             \* the API Server: its counter, producer and latest responses
    app                 \* Application.Run: its goroutines, errChan and what Shutdown did

vars == <<app, call, server, preferredFormat, mode, ctxDone, pc, msg, dec, err, startRet, closes,
          offset, fetchErrs, trace, procOut, storage, ProcessedCommands>>

Modes == {"stub", "real"}

\* errors the reader reports: a passing one, a broker-connection failure, and
\* the context's own error
ErrTransient == "fetch timeout"
ErrFatal == "broker connection failed"
ErrCanceled == "context canceled"

ReaderErrs(done) ==
    IF done THEN {ErrTransient, ErrFatal, ErrCanceled} ELSE {ErrTransient, ErrFatal}

NoMsg == [off |-> -1, p |-> 0]
NoDec == [cmd |-> IfaceNil, err |-> NilErr, tried |-> <<>>]
\* no HTTP response has been written
NoResponse == [status |-> 0, code |-> "", id |-> "", messages |-> 0]

\* NewServer(): the counter is zero and no producer is set; on top of the
\* Server's fields, the number of IncrementMessagesCount calls that have
\* returned, the latest request with its response, and what the producer was
\* called with
NewServer ==
    [messagesCount |-> 0, producer |-> "nil", increments |-> 0, requests |-> 0,
     path |-> "", req |-> [wellFormed |-> FALSE, decodeOK |-> FALSE, v |-> ZeroJsonCmd],
     resp |-> NoResponse, sendCalled |-> FALSE, sendFailed |-> FALSE,
     sentCmd |-> ZeroCommand, loadedAt |-> 0]

\* Application.Run after it has started its goroutines: Run waits in its
\* select, the HTTP goroutine is about to call ListenAndServe, the consumer
\* goroutine runs Handler.Start, errChan is empty and Shutdown has not run
NewApplication ==
    [run |-> "select", ret |-> "none", http |-> "starting", consumer |-> "running",
     errChan |-> <<>>, httpShutdown |-> FALSE, producerClosed |-> FALSE]

\* no direct call has been made
NoCall == [fn |-> "none", n |-> 0, nils |-> 0, lastNil |-> ZeroCommand]

NoOutcome == Outcome(<<>>, NilErr, <<>>, <<>>, <<>>, <<>>)

\* one call: which operation, on which message, with which result
Event(op, off, res) == [op |-> op, off |-> off, res |-> res]

ResOf(e) == IF e = NilErr THEN "ok" ELSE "err"

\* AfterDecode with the commit on a decode error left out
AfterDecode_NoCommit(d) == IF d.err # NilErr THEN "select" ELSE "process"

\* AfterDecode committing a decoded command without handing it to the processor
AfterDecode_SkipProcess(d) == IF d.err # NilErr THEN "commit" ELSE "commit"

\* processNextMessage after DecodeCommand: a decode error skips the processor
\* and commits
AfterDecode(d) == IF d.err # NilErr THEN "commit" ELSE "process"

\* AfterProcess retrying a failed command inside the loop
AfterProcess_Retry(out) == IF out.err # NilErr THEN "process" ELSE "commit"

\* AfterProcess withholding the commit of a failed command
AfterProcess_SkipCommit(out) == IF out.err # NilErr THEN "select" ELSE "commit"

\* processNextMessage after ProcessAny: the error is only logged, the commit
\* follows in both cases
AfterProcess(out) == IF out.err # NilErr THEN "commit" ELSE "commit"

\* processNextMessage returns the commit's error to Start
AfterCommit(e) == IF e = NilErr THEN "select" ELSE "errcheck"

\* StartOnError treating every error as fatal
StartOnError_Abort(done, e) == [pc |-> "returned", ret |-> e]

\* StartOnError handing the error back on a cancelled context
StartOnError_ReturnErr(done, e) ==
    IF done THEN [pc |-> "returned", ret |-> e]
    ELSE [pc |-> "select", ret |-> "none"]

\* Handler.Start on an error of processNextMessage: nil on a cancelled
\* context, otherwise log and continue
StartOnError(done, e) ==
    IF done THEN [pc |-> "returned", ret |-> NilErr]
    ELSE [pc |-> "select", ret |-> "none"]

\* app.Init / NewHandler / NewDecoder: the configuration picks the format and
\* the processor; the loop has not started.
Init ==
    /\ preferredFormat \in Formats
    /\ mode \in Modes
    /\ ctxDone = FALSE
    /\ pc = "select"
    /\ msg = NoMsg
    /\ dec = NoDec
    /\ err = NilErr
    /\ startRet = "none"
    /\ closes = 0
    /\ offset = 0
    /\ fetchErrs = 0
    /\ trace = <<>>
    /\ procOut = NoOutcome
    /\ storage = {}
    /\ ProcessedCommands = <<>>
    /\ call = NoCall
    /\ server = NewServer
    /\ app = NewApplication

\* Application.Run's signal goroutine: cancel()
Cancel ==
    /\ ~ctxDone
    /\ ctxDone' = TRUE
    /\ UNCHANGED <<app, call, server, preferredFormat,
                   mode, pc, msg, dec, err, startRet, closes,
                   offset, fetchErrs, trace, procOut, storage, ProcessedCommands>>

\* reader.Close() of kafka-go reports no error
ReaderClose == NilErr

\* Handler.Close
Close == ReaderClose

\* StartSelect taking the default branch whatever the context says
StartSelect_IgnoresCancel ==
    /\ pc = "select"
    /\ pc' = "fetch"
    /\ UNCHANGED <<app, call, server, preferredFormat,
                   mode, ctxDone, msg, dec, err, offset, closes, startRet,
                   fetchErrs, trace, procOut, storage, ProcessedCommands>>

\* Handler.Start, the select at the top of the loop: on a cancelled context
\* return h.Close(), otherwise enter processNextMessage.
StartSelect ==
    /\ pc = "select"
    /\ IF ctxDone
       THEN /\ closes' = closes + 1
            /\ startRet' = Close
            /\ pc' = "returned"
       ELSE /\ pc' = "fetch"
            /\ UNCHANGED <<closes, startRet>>
    /\ UNCHANGED <<app, call, server, preferredFormat,
                   mode, ctxDone, msg, dec, err, offset,
                   fetchErrs, trace, procOut, storage, ProcessedCommands>>

\* processNextMessage: FetchMessage returns the next message of the partition
FetchMessageOK ==
    /\ pc = "fetch"
    /\ offset < MaxMsgs
    /\ \E p \in PayloadIds :
          msg' = [off |-> offset, p |-> p]
    /\ offset' = offset + 1
    /\ dec' = NoDec
    /\ trace' = Append(trace, Event("fetch", offset, "ok"))
    /\ pc' = "decode"
    /\ UNCHANGED <<app, call, server, preferredFormat,
                   mode, ctxDone, err, startRet, closes,
                   fetchErrs, procOut, storage, ProcessedCommands>>

\* processNextMessage: FetchMessage fails and the error is returned to Start
FetchMessageErr ==
    /\ pc = "fetch"
    /\ \E e \in ReaderErrs(ctxDone) :
          /\ e # ErrCanceled => fetchErrs < MaxFetchErrs
          /\ err' = e
          /\ fetchErrs' = IF e = ErrCanceled THEN fetchErrs ELSE fetchErrs + 1
    /\ pc' = "errcheck"
    /\ UNCHANGED <<app, call, server, preferredFormat,
                   mode, ctxDone, msg, dec, startRet, closes,
                   offset, trace, procOut, storage, ProcessedCommands>>

\* processNextMessage: h.decoder.DecodeCommand(msg.Value); a decode error goes
\* straight to the commit
Decode ==
    /\ pc = "decode"
    /\ dec' = DecodeCommand(preferredFormat, PayloadList[msg.p])
    /\ trace' = Append(trace, Event("decode", msg.off, ResOf(dec'.err)))
    /\ pc' = AfterDecode(dec')
    /\ UNCHANGED <<app, call, server, preferredFormat,
                   mode, ctxDone, msg, err, startRet, closes,
                   offset, fetchErrs, procOut, storage, ProcessedCommands>>

\* processNextMessage: h.processor.ProcessAny(ctx, cmd); its error is logged.
\* The download request carries ctx, so it fails on a cancelled context.
HandlerProcess ==
    /\ pc = "process"
    /\ \E env \in Envs :
          LET out == ProcessAny(mode, dec.cmd, env) IN
          /\ ctxDone => ~env.downloadOK
          /\ procOut' = out
          /\ storage' = storage \cup {out.uploads[i] : i \in DOMAIN out.uploads}
          /\ ProcessedCommands' = ProcessedCommands \o out.recorded
          /\ trace' = Append(trace, Event("process", msg.off, ResOf(out.err)))
                        \o [i \in DOMAIN out.results |->
                              Event("result", msg.off,
                                    IF out.results[i].Success THEN "ok" ELSE "err")]
          /\ pc' = AfterProcess(out)
    /\ UNCHANGED <<app, call, server, preferredFormat,
                   mode, ctxDone, msg, dec, err, startRet,
                   closes, offset, fetchErrs>>

\* processNextMessage: return h.reader.CommitMessages(ctx, msg)
CommitMessages ==
    /\ pc = "commit"
    /\ \E e \in {NilErr} \cup ReaderErrs(ctxDone) :
          /\ err' = e
          /\ pc' = AfterCommit(e)
          /\ trace' = Append(trace, Event("commit", msg.off, ResOf(e)))
    /\ msg' = NoMsg
    /\ UNCHANGED <<app, call, server, preferredFormat,
                   mode, ctxDone, dec, startRet, closes, offset,
                   fetchErrs, procOut, storage, ProcessedCommands>>

\* Handler.Start after processNextMessage returned an error: return nil on a
\* cancelled context, otherwise log the error and loop.
ErrCheck ==
    /\ pc = "errcheck"
    /\ pc' = StartOnError(ctxDone, err).pc
    /\ startRet' = StartOnError(ctxDone, err).ret
    /\ UNCHANGED <<app, call, server, preferredFormat,
                   mode, ctxDone, msg, dec, err, closes, offset,
                   fetchErrs, trace, procOut, storage, ProcessedCommands>>

Next ==
    \/ Cancel
    \/ StartSelect
    \/ FetchMessageOK
    \/ FetchMessageErr
    \/ Decode
    \/ HandlerProcess
    \/ CommitMessages
    \/ ErrCheck

Spec == Init /\ [][Next]_vars

\* The consume loop with its scheduling: the consumer goroutine keeps running
\* its own steps (the select, the decoder, the error check), and the calls
\* that take ctx (FetchMessage, ProcessAny, CommitMessages) return once ctx
\* is cancelled. Before the cancellation FetchMessage may block for ever.
SpecLive ==
    /\ Init
    /\ [][Next]_vars
    /\ WF_vars(StartSelect)
    /\ WF_vars(Decode)
    /\ WF_vars(ErrCheck)
    /\ WF_vars(ctxDone /\ (FetchMessageOK \/ FetchMessageErr))
    /\ WF_vars(ctxDone /\ HandlerProcess)
    /\ WF_vars(ctxDone /\ CommitMessages)

\* ---------------------------------------------------------- the application
\* Application.Run: the goroutine that called Run, the signal goroutine
\* (Cancel), the HTTP goroutine and the consumer goroutine (the loop above).

\* Run leaving its select without calling Shutdown
AfterSelect_NoShutdown(c) == IF c = "done" THEN "returned" ELSE "returned"

\* Run after its select: Shutdown on ctx.Done(), return err on errChan
AfterSelect(c) == IF c = "done" THEN "shutdown" ELSE "returned"

\* the cases of Run's select that are ready
ReadyCases ==
    (IF ctxDone THEN {"done"} ELSE {})
    \cup (IF app.errChan # <<>> THEN {"err"} ELSE {})

\* the HTTP goroutine: httpServer.ListenAndServe() serves until Shutdown, and
\* returns http.ErrServerClosed at once when Shutdown was called before it
ListenAndServe ==
    /\ app.http = "starting"
    /\ app' = [app EXCEPT !.http = IF app.httpShutdown THEN "closed" ELSE "serving"]
    /\ UNCHANGED <<call, server, preferredFormat, mode, ctxDone, pc, msg, dec, err,
                   startRet, closes, offset, fetchErrs, trace, procOut, storage,
                   ProcessedCommands>>

\* the consumer goroutine after Start returned: a non-nil error goes to
\* errChan, and the goroutine ends
ConsumerExit ==
    /\ pc = "returned"
    /\ app.consumer = "running"
    /\ app' = [app EXCEPT !.consumer = "done",
                          !.errChan = IF startRet # NilErr THEN <<startRet>> ELSE <<>>]
    /\ UNCHANGED <<call, server, preferredFormat, mode, ctxDone, pc, msg, dec, err,
                   startRet, closes, offset, fetchErrs, trace, procOut, storage,
                   ProcessedCommands>>

\* Run's select: wait for ctx.Done() or for an error on errChan; an error is
\* returned as it is, and the deferred cancel() runs
RunSelect ==
    /\ app.run = "select"
    /\ \E c \in ReadyCases :
          /\ app' = [app EXCEPT !.run = AfterSelect(c),
                                !.ret = IF AfterSelect(c) = "returned"
                                        THEN IF c = "err" THEN app.errChan[1] ELSE NilErr
                                        ELSE "none",
                                !.errChan = IF c = "err" THEN <<>> ELSE app.errChan]
          /\ ctxDone' = (ctxDone \/ AfterSelect(c) = "returned")
    /\ UNCHANGED <<call, server, preferredFormat, mode, pc, msg, dec, err,
                   startRet, closes, offset, fetchErrs, trace, procOut, storage,
                   ProcessedCommands>>

\* Shutdown: a.httpServer.Shutdown(shutdownCtx); its error is only logged
ShutdownHTTP ==
    /\ app.run = "shutdown"
    /\ app' = [app EXCEPT !.run = "producer", !.httpShutdown = TRUE,
                          !.http = IF app.http = "serving" THEN "closed" ELSE app.http]
    /\ UNCHANGED <<call, server, preferredFormat, mode, ctxDone, pc, msg, dec, err,
                   startRet, closes, offset, fetchErrs, trace, procOut, storage,
                   ProcessedCommands>>

\* Shutdown: a.producer.Close(), its error only logged, and return nil; Run
\* returns that
CloseProducer ==
    /\ app.run = "producer"
    /\ app' = [app EXCEPT !.run = "returned", !.ret = NilErr, !.producerClosed = TRUE]
    /\ UNCHANGED <<call, server, preferredFormat, mode, ctxDone, pc, msg, dec, err,
                   startRet, closes, offset, fetchErrs, trace, procOut, storage,
                   ProcessedCommands>>

\* the application under its default configuration
AppInit ==
    /\ Init
    /\ mode = "stub"
    /\ preferredFormat = FormatJSON

AppNext ==
    \/ Next
    \/ ListenAndServe
    \/ ConsumerExit
    \/ RunSelect
    \/ ShutdownHTTP
    \/ CloseProducer

SpecApp == AppInit /\ [][AppNext]_vars

\* ------------------------------------------------ Process called directly
\* Process is exercised on its own, over commands of every type with
\* matching, missing and mismatched parameters, valid and invalid.

MaxCalls == 2

\* intensities in hundredths: below the range, its ends, its middle, a
\* quarter, and above it
Intensities == {-25, 0, 25, 50, 100, 150}

\* commands of one id and url; the downloaded image is 4x2
CommandsOf(id, url) ==
    {ImageCommand(id, url, COMMAND_TYPE_RESIZE, ResizeParameters(w, h, k)) :
        w \in {-1, 0, 3}, h \in {-1, 0, 3}, k \in BOOLEAN}
    \cup {ImageCommand(id, url, COMMAND_TYPE_CROP, p) :
            p \in {CropParameters(0, 0, 2, 1), CropParameters(1, 0, 3, 2),
                   CropParameters(2, 1, 4, 2), CropParameters(-1, 0, 2, 1),
                   CropParameters(0, 0, 0, 1), CropParameters(0, 0, 2, -1),
                   CropParameters(3, 0, 2, 0)}}
    \cup {ImageCommand(id, url, COMMAND_TYPE_FILTER, FilterParameters(ft, 100)) :
            ft \in {"grayscale", "blur", "sepia"}}
    \cup {ImageCommand(id, url, COMMAND_TYPE_FILTER, FilterParameters("brightness", i)) :
            i \in Intensities}
    \cup {ImageCommand(id, url, COMMAND_TYPE_FILTER, p) :
            p \in {FilterParameters("contrast", 25), FilterParameters("saturation", 50)}}
    \cup {ImageCommand(id, url, COMMAND_TYPE_TRANSFORM, p) :
            p \in {TransformParameters(0, FALSE, FALSE),
                   TransformParameters(90, FALSE, FALSE),
                   TransformParameters(0, TRUE, FALSE),
                   TransformParameters(180, TRUE, TRUE)}}
    \cup {ImageCommand(id, url, COMMAND_TYPE_ANALYZE, AnalyzeParameters(<<"m">>)),
          ImageCommand(id, url, COMMAND_TYPE_REMOVE_BACKGROUND,
                       RemoveBackgroundParameters("png", TRUE)),
          ImageCommand(id, url, COMMAND_TYPE_RESIZE, CropParameters(0, 0, 2, 1)),
          ImageCommand(id, url, COMMAND_TYPE_UNSPECIFIED, ResizeParameters(3, 3, FALSE))}
    \cup {ImageCommand(id, url, ct, NoParams) : ct \in CommandTypes}

\* commands with a missing id or image_url
InvalidCommands ==
    {ImageCommand(id, url, ct, NoParams) :
        id \in {"", "a"}, url \in {"", "u"}, ct \in CommandTypes} \
    {ImageCommand("a", "u", ct, NoParams) : ct \in CommandTypes}

Commands ==
    CommandsOf("a", "u") \cup InvalidCommands
    \cup {ImageCommand("b", "u", COMMAND_TYPE_TRANSFORM,
                       TransformParameters(90, FALSE, FALSE))}

ProcInit ==
    /\ preferredFormat = FormatJSON
    /\ mode \in Modes
    /\ ctxDone = FALSE
    /\ pc = "select"
    /\ msg = NoMsg
    /\ dec = NoDec
    /\ err = NilErr
    /\ startRet = "none"
    /\ closes = 0
    /\ offset = 0
    /\ fetchErrs = 0
    /\ trace = <<>>
    /\ procOut = NoOutcome
    /\ storage = {}
    /\ ProcessedCommands = <<>>
    /\ call = NoCall
    /\ server = NewServer
    /\ app = NewApplication

\* what the world may do during a direct call: any storage implementation,
\* and a source image of either orientation; the stub touches neither
ProcessEnvs(m) ==
    IF m = "stub" THEN {Env(TRUE, Image(4, 2, <<>>), TRUE, FALSE)}
    ELSE StorageEnvs \cup {Env(TRUE, Image(2, 4, <<>>), TRUE, FALSE)}

\* the values ProcessAny is called with: image commands (valid and invalid,
\* of every type), the nil interface, and a value of another type
Ifaces ==
    {IfaceCmd(cmd) : cmd \in {c \in Commands :
                                c.parameters.kind \in {"none", "crop", "analyze"}}}
    \cup {IfaceNil, IfaceOther("string")}

\* the record of a direct call: the input, the outcome, the storage and the
\* recorded commands before it, and how many Process calls have returned nil
\* so far and the command of the latest of them
CallRecord(fn, iface, env, out, delegated) ==
    [fn |-> fn, n |-> call.n + 1, iface |-> iface, cmd |-> iface.val, env |-> env,
     out |-> out, before |-> storage, recordedBefore |-> ProcessedCommands,
     nils |-> IF delegated /\ out.err = NilErr THEN call.nils + 1 ELSE call.nils,
     lastNil |-> IF delegated /\ out.err = NilErr THEN iface.val ELSE call.lastNil]

\* one call of Processor.Process(ctx, cmd)
ProcessCall ==
    /\ call.n < MaxCalls
    /\ \E cmd \in Commands, env \in ProcessEnvs(mode) :
          LET out == Process(mode, cmd, env) IN
          /\ call' = CallRecord("Process", IfaceCmd(cmd), env, out, TRUE)
          /\ storage' = storage \cup {out.uploads[i] : i \in DOMAIN out.uploads}
          /\ ProcessedCommands' = ProcessedCommands \o out.recorded
    /\ UNCHANGED <<app, server, preferredFormat, mode, ctxDone, pc, msg, dec, err, startRet,
                   closes, offset, fetchErrs, trace, procOut>>

\* one call of Processor.ProcessAny(ctx, cmd)
ProcessAnyCall ==
    /\ call.n < MaxCalls
    /\ \E iface \in Ifaces, env \in ProcessEnvs(mode) :
          LET out == ProcessAny(mode, iface, env) IN
          /\ call' = CallRecord("ProcessAny", iface, env, out,
                                iface.gotype = "*pb.ImageCommand")
          /\ storage' = storage \cup {out.uploads[i] : i \in DOMAIN out.uploads}
          /\ ProcessedCommands' = ProcessedCommands \o out.recorded
    /\ UNCHANGED <<app, server, preferredFormat, mode, ctxDone, pc, msg, dec, err, startRet,
                   closes, offset, fetchErrs, trace, procOut>>

ProcNext ==
    \/ ProcessCall
    \/ ProcessAnyCall

SpecProcess == ProcInit /\ [][ProcNext]_vars

\* ------------------------------------------ DecodeCommand called directly
\* commandTypeToString of the producer
commandTypeToString(ct) ==
    CASE ct = COMMAND_TYPE_RESIZE -> "resize"
      [] ct = COMMAND_TYPE_FILTER -> "filter"
      [] ct = COMMAND_TYPE_TRANSFORM -> "transform"
      [] ct = COMMAND_TYPE_ANALYZE -> "analyze"
      [] ct = COMMAND_TYPE_CROP -> "crop"
      [] ct = COMMAND_TYPE_REMOVE_BACKGROUND -> "remove_background"
      [] OTHER -> "unspecified"

\* Producer.encodeJSON: the params map built by the type switch on
\* cmd.Parameters; a variant without a case leaves the map empty, and an
\* empty map is not put under "parameters"
EncodedParameters(p) ==
    CASE p.kind = "resize" ->
            JMap([width |-> JNum(p.width), height |-> JNum(p.height)])
      [] p.kind = "filter" ->
            JMap([filter_type |-> JStr(p.filter_type), intensity |-> JNum(p.intensity)])
      [] p.kind = "transform" ->
            JMap([rotation_degrees |-> JNum(p.rotation_degrees)])
      [] p.kind = "crop" ->
            JMap([x |-> JNum(p.x), y |-> JNum(p.y), width |-> JNum(p.width),
                  height |-> JNum(p.height)])
      [] OTHER -> NilMap

\* Producer.encodeJSON: the bytes json.Marshal(jsonCmd) yields. They are JSON
\* text, so json.Unmarshal fills the decoder's struct from the keys id,
\* command, image_url and parameters, and proto.Unmarshal rejects them.
encodeJSON(cmd) ==
    Payload(TRUE,
            JsonCmd(cmd.id, commandTypeToString(cmd.command), cmd.image_url,
                    EncodedParameters(cmd.parameters)),
            FALSE, ZeroCommand)

\* the command strings text messages are tried with
CommandStrings ==
    {"resize", "filter", "transform", "analyze", "crop", "remove_background",
     "unknown_type", "unspecified", ""}

\* the parameters objects text messages are tried with: absent, every key
\* with a value of the type the decoder reads, every key with a value of
\* another type, and an object without any key the decoder reads
ParameterMaps ==
    {NilMap,
     JMap([width |-> JNum(3), height |-> JNum(2), x |-> JNum(1), y |-> JNum(0),
           filter_type |-> JStr("blur"), intensity |-> JNum(1),
           rotation_degrees |-> JNum(90), flip_horizontal |-> JBool(TRUE),
           flip_vertical |-> JBool(TRUE),
           models |-> JArr(<<JStr("m"), JNum(1), JStr("n")>>),
           output_format |-> JStr("png"), high_quality |-> JBool(TRUE)]),
     JMap([width |-> JStr("3"), height |-> JBool(TRUE), x |-> JStr("1"),
           y |-> JStr("0"), filter_type |-> JNum(1), intensity |-> JStr("1"),
           rotation_degrees |-> JStr("90"), flip_horizontal |-> JNum(1),
           flip_vertical |-> JStr("true"), models |-> JStr("m"),
           output_format |-> JNum(1), high_quality |-> JStr("yes")]),
     JMap([quality |-> JNum(1)])}

\* text messages, binary messages, and bytes valid in both or neither format
DecodePayloads ==
    {Payload(TRUE, JsonCmd(id, c, "u", params), FALSE, ZeroCommand) :
        id \in {"", "a"}, c \in CommandStrings, params \in ParameterMaps}
    \cup {Payload(FALSE, ZeroJsonCmd, TRUE, cmd) : cmd \in Commands}
    \cup {PayloadList[i] : i \in PayloadIds}

DecInit ==
    /\ preferredFormat \in Formats
    /\ mode = "real"
    /\ ctxDone = FALSE
    /\ pc = "select"
    /\ msg = NoMsg
    /\ dec = NoDec
    /\ err = NilErr
    /\ startRet = "none"
    /\ closes = 0
    /\ offset = 0
    /\ fetchErrs = 0
    /\ trace = <<>>
    /\ procOut = NoOutcome
    /\ storage = {}
    /\ ProcessedCommands = <<>>
    /\ call = NoCall
    /\ server = NewServer
    /\ app = NewApplication

\* one call of Decoder.DecodeCommand(data)
DecodeCall ==
    /\ call.n < MaxCalls
    /\ \E data \in DecodePayloads :
          call' = [fn |-> "DecodeCommand", n |-> call.n + 1, cmd |-> ZeroCommand,
                   data |-> data, out |-> DecodeCommand(preferredFormat, data)]
    /\ UNCHANGED <<app, server, preferredFormat, mode, ctxDone, pc, msg, dec, err, startRet,
                   closes, offset, fetchErrs, trace, procOut, storage,
                   ProcessedCommands>>

\* Producer.encodeJSON(cmd) followed by Decoder.DecodeCommand on its bytes
EncodeDecodeCall ==
    /\ call.n < MaxCalls
    /\ \E cmd \in Commands :
          call' = [fn |-> "encodeJSON", n |-> call.n + 1, cmd |-> cmd,
                   data |-> encodeJSON(cmd),
                   out |-> DecodeCommand(preferredFormat, encodeJSON(cmd))]
    /\ UNCHANGED <<app, server, preferredFormat, mode, ctxDone, pc, msg, dec, err, startRet,
                   closes, offset, fetchErrs, trace, procOut, storage,
                   ProcessedCommands>>

DecNext ==
    \/ DecodeCall
    \/ EncodeDecodeCall

SpecDecode == DecInit /\ [][DecNext]_vars

\* ------------------------------------------------------- the API server
MaxRequests == 3

StatusOK == 200
StatusCreated == 201
StatusBadRequest == 400
StatusInternalServerError == 500

\* the image_url values requests are tried with, and those the validator's
\* url rule accepts
ImageURLs == {"", "not a url", "https://example.com/test.jpg"}
IsURL(u) == u = "https://example.com/test.jpg"

\* a request body: whether the bytes are one JSON text, whether
\* json.NewDecoder(r.Body).Decode(&req) returns nil, and the req it fills
Body(wellFormed, decodeOK, v) ==
    [wellFormed |-> wellFormed, decodeOK |-> decodeOK, v |-> v]

\* the bodies POST /send is tried with: bytes that are not JSON; a JSON
\* object whose id is a number, which Decode rejects; JSON objects with and
\* without each field; and a complete request object followed by further
\* bytes, of which Decode reads the object and nothing more
SendBodies ==
    {Body(FALSE, FALSE, ZeroJsonCmd), Body(TRUE, FALSE, ZeroJsonCmd)}
    \cup {Body(TRUE, TRUE, JsonCmd(id, c, u, params)) :
            id \in {"", "test-001"}, c \in CommandStrings, u \in ImageURLs,
            params \in {NilMap, JMap([width |-> JNum(3), height |-> JNum(2)])}}
    \cup {Body(FALSE, TRUE,
                JsonCmd("test-002", "resize", "https://example.com/test.jpg", NilMap)),
          Body(FALSE, TRUE, JsonCmd("", "resize", "https://example.com/test.jpg", NilMap))}

\* validator tags of api.SendMessageRequest
ValidateStruct(req) ==
    /\ req.ID # ""
    /\ req.Command # ""
    /\ req.Command \in {"resize", "filter", "transform", "analyze", "crop",
                        "remove_background"}
    /\ req.ImageURL # ""
    /\ IsURL(req.ImageURL)

\* customerrors.WriteError: the status and the code of the AppError
ErrorResponse(status, code) == [status |-> status, code |-> code, id |-> "", messages |-> 0]

\* AddInt64 that loses the update when the counter is odd
AtomicAddInt64_Lossy(v, delta) == IF v % 2 = 1 THEN v ELSE v + delta

\* atomic.AddInt64
AtomicAddInt64(v, delta) == v + delta

\* atomic.LoadInt64
AtomicLoadInt64(v) == v

\* SendHandler's switch on req.Command: the protobuf command it builds
SendCommand(req) ==
    ImageCommand(req.ID, req.ImageURL, CommandTypeOf(req.Command),
                 ParametersOf(req.Command, req.Parameters))

\* SendHandler calling the producer before it validates the request
SendHandlerResult_SendFirst(srv, body, sendOK) ==
    IF ~body.decodeOK
    THEN [resp |-> ErrorResponse(StatusBadRequest, "BAD_REQUEST"),
          called |-> FALSE, cmd |-> ZeroCommand, counted |-> FALSE]
    ELSE IF srv.producer = "nil"
    THEN [resp |-> ErrorResponse(StatusInternalServerError, "panic"),
          called |-> FALSE, cmd |-> ZeroCommand, counted |-> FALSE]
    ELSE IF ~sendOK
    THEN [resp |-> ErrorResponse(StatusInternalServerError, "INTERNAL_ERROR"),
          called |-> TRUE, cmd |-> SendCommand(body.v), counted |-> FALSE]
    ELSE IF ~ValidateStruct(body.v)
    THEN [resp |-> ErrorResponse(StatusBadRequest, "VALIDATION_ERROR"),
          called |-> TRUE, cmd |-> SendCommand(body.v), counted |-> FALSE]
    ELSE [resp |-> [status |-> StatusCreated, code |-> "", id |-> body.v.ID,
                    messages |-> 0],
          called |-> TRUE, cmd |-> SendCommand(body.v), counted |-> TRUE]

\* SendHandler counting the message before it knows that the send succeeded
SendHandlerResult_CountsFailedSend(srv, body, sendOK) ==
    IF ~body.decodeOK
    THEN [resp |-> ErrorResponse(StatusBadRequest, "BAD_REQUEST"),
          called |-> FALSE, cmd |-> ZeroCommand, counted |-> FALSE]
    ELSE IF ~ValidateStruct(body.v)
    THEN [resp |-> ErrorResponse(StatusBadRequest, "VALIDATION_ERROR"),
          called |-> FALSE, cmd |-> ZeroCommand, counted |-> FALSE]
    ELSE IF CommandTypeOf(body.v.Command) = COMMAND_TYPE_UNSPECIFIED
    THEN [resp |-> ErrorResponse(StatusBadRequest, "BAD_REQUEST"),
          called |-> FALSE, cmd |-> ZeroCommand, counted |-> FALSE]
    ELSE IF srv.producer = "nil"
    THEN [resp |-> ErrorResponse(StatusInternalServerError, "panic"),
          called |-> FALSE, cmd |-> ZeroCommand, counted |-> FALSE]
    ELSE IF ~sendOK
    THEN [resp |-> ErrorResponse(StatusInternalServerError, "INTERNAL_ERROR"),
          called |-> TRUE, cmd |-> SendCommand(body.v), counted |-> TRUE]
    ELSE [resp |-> [status |-> StatusCreated, code |-> "", id |-> body.v.ID,
                    messages |-> 0],
          called |-> TRUE, cmd |-> SendCommand(body.v), counted |-> TRUE]

\* Server.SendHandler: the response, whether and with what the producer was
\* called, and whether the counter is incremented. Behind the router a
\* panic (nil producer) is answered by middleware.Recoverer.
SendHandlerResult(srv, body, sendOK) ==
    IF ~body.decodeOK
    THEN [resp |-> ErrorResponse(StatusBadRequest, "BAD_REQUEST"),
          called |-> FALSE, cmd |-> ZeroCommand, counted |-> FALSE]
    ELSE IF ~ValidateStruct(body.v)
    THEN [resp |-> ErrorResponse(StatusBadRequest, "VALIDATION_ERROR"),
          called |-> FALSE, cmd |-> ZeroCommand, counted |-> FALSE]
    ELSE IF CommandTypeOf(body.v.Command) = COMMAND_TYPE_UNSPECIFIED
    THEN [resp |-> ErrorResponse(StatusBadRequest, "BAD_REQUEST"),
          called |-> FALSE, cmd |-> ZeroCommand, counted |-> FALSE]
    ELSE IF srv.producer = "nil"
    THEN [resp |-> ErrorResponse(StatusInternalServerError, "panic"),
          called |-> FALSE, cmd |-> ZeroCommand, counted |-> FALSE]
    ELSE IF ~sendOK
    THEN [resp |-> ErrorResponse(StatusInternalServerError, "INTERNAL_ERROR"),
          called |-> TRUE, cmd |-> SendCommand(body.v), counted |-> FALSE]
    ELSE [resp |-> [status |-> StatusCreated, code |-> "", id |-> body.v.ID,
                    messages |-> 0],
          called |-> TRUE, cmd |-> SendCommand(body.v), counted |-> TRUE]

SrvInit ==
    /\ preferredFormat = FormatJSON
    /\ mode = "real"
    /\ ctxDone = FALSE
    /\ pc = "select"
    /\ msg = NoMsg
    /\ dec = NoDec
    /\ err = NilErr
    /\ startRet = "none"
    /\ closes = 0
    /\ offset = 0
    /\ fetchErrs = 0
    /\ trace = <<>>
    /\ procOut = NoOutcome
    /\ storage = {}
    /\ ProcessedCommands = <<>>
    /\ call = NoCall
    /\ server = NewServer
    /\ app = NewApplication

\* Server.SetProducer
SetProducer ==
    /\ server.producer = "nil"
    /\ server' = [server EXCEPT !.producer = "set"]
    /\ UNCHANGED <<app, call, preferredFormat, mode, ctxDone, pc, msg, dec, err, startRet,
                   closes, offset, fetchErrs, trace, procOut, storage,
                   ProcessedCommands>>

\* Server.IncrementMessagesCount, called from any goroutine: one atomic step
IncrementMessagesCount ==
    /\ server.requests < MaxRequests
    /\ server' = [server EXCEPT
                    !.messagesCount = AtomicAddInt64(server.messagesCount, 1),
                    !.increments = server.increments + 1,
                    !.requests = server.requests + 1]
    /\ UNCHANGED <<app, call, preferredFormat, mode, ctxDone, pc, msg, dec, err, startRet,
                   closes, offset, fetchErrs, trace, procOut, storage,
                   ProcessedCommands>>

\* Server.StatsHandler: GET /stats answers with GetMessagesCount()
StatsHandler ==
    /\ server.requests < MaxRequests
    /\ server' = [server EXCEPT
                    !.path = "/stats",
                    !.resp = [status |-> StatusOK, code |-> "", id |-> "",
                              messages |-> AtomicLoadInt64(server.messagesCount)],
                    !.loadedAt = server.increments,
                    !.sendCalled = FALSE,
                    !.sendFailed = FALSE,
                    !.sentCmd = ZeroCommand,
                    !.requests = server.requests + 1]
    /\ UNCHANGED <<app, call, preferredFormat, mode, ctxDone, pc, msg, dec, err, startRet,
                   closes, offset, fetchErrs, trace, procOut, storage,
                   ProcessedCommands>>

\* Server.HealthHandler: GET /health answers with GetMessagesCount()
HealthHandler ==
    /\ server.requests < MaxRequests
    /\ server' = [server EXCEPT
                    !.path = "/health",
                    !.resp = [status |-> StatusOK, code |-> "", id |-> "",
                              messages |-> AtomicLoadInt64(server.messagesCount)],
                    !.loadedAt = server.increments,
                    !.sendCalled = FALSE,
                    !.sendFailed = FALSE,
                    !.sentCmd = ZeroCommand,
                    !.requests = server.requests + 1]
    /\ UNCHANGED <<app, call, preferredFormat, mode, ctxDone, pc, msg, dec, err, startRet,
                   closes, offset, fetchErrs, trace, procOut, storage,
                   ProcessedCommands>>

\* Server.ReadyHandler: GET /ready answers "ready"
ReadyHandler ==
    /\ server.requests < MaxRequests
    /\ server' = [server EXCEPT
                    !.path = "/ready",
                    !.resp = [status |-> StatusOK, code |-> "", id |-> "",
                              messages |-> 0],
                    !.sendCalled = FALSE,
                    !.sendFailed = FALSE,
                    !.sentCmd = ZeroCommand,
                    !.requests = server.requests + 1]
    /\ UNCHANGED <<app, call, preferredFormat, mode, ctxDone, pc, msg, dec, err, startRet,
                   closes, offset, fetchErrs, trace, procOut, storage,
                   ProcessedCommands>>

\* Server.SendHandler: POST /send
SendHandler ==
    /\ server.requests < MaxRequests
    /\ \E body \in SendBodies, sendOK \in BOOLEAN :
          LET res == SendHandlerResult(server, body, sendOK) IN
          server' = [server EXCEPT
                       !.path = "/send",
                       !.req = body,
                       !.resp = res.resp,
                       !.sendCalled = res.called,
                       !.sendFailed = res.called /\ ~sendOK,
                       !.sentCmd = res.cmd,
                       !.messagesCount =
                           IF res.counted THEN AtomicAddInt64(server.messagesCount, 1)
                           ELSE server.messagesCount,
                       !.increments =
                           IF res.counted THEN server.increments + 1
                           ELSE server.increments,
                       !.requests = server.requests + 1]
    /\ UNCHANGED <<app, call, preferredFormat, mode, ctxDone, pc, msg, dec, err, startRet,
                   closes, offset, fetchErrs, trace, procOut, storage,
                   ProcessedCommands>>

SrvNext ==
    \/ SetProducer
    \/ IncrementMessagesCount
    \/ HealthHandler
    \/ ReadyHandler
    \/ StatsHandler
    \/ SendHandler

SpecServer == SrvInit /\ [][SrvNext]_vars

\* ----------------------------------------------------------------- claims
\* number of calls of an operation on the message at an offset
Count(op, off) ==
    Cardinality({i \in DOMAIN trace : trace[i].op = op /\ trace[i].off = off})

\* the call of op on off returned res
Returned(op, off, res) ==
    \E i \in DOMAIN trace : trace[i] = Event(op, off, res)

\* messages fetched so far
Fetched == 0 .. (offset - 1)

\* processNextMessage has returned for the message at off
Finished(off) == off \in Fetched /\ msg.off # off

\* position of the only call of op on off
Pos(op, off) == CHOOSE i \in DOMAIN trace : trace[i].op = op /\ trace[i].off = off

\* C1: a fetched message whose bytes fail to decode is decoded once, never
\* handed to the processor, committed at most once and, when
\* processNextMessage has returned for it, exactly once; handling it ends
\* Start only if the context was cancelled, otherwise the loop goes on.
C1_PoisonCommittedOnce ==
    \A off \in Fetched :
        Returned("decode", off, "err") =>
            /\ Count("decode", off) = 1
            /\ Count("process", off) = 0
            /\ Count("commit", off) <= 1
            /\ Finished(off) => Count("commit", off) = 1
            /\ pc = "returned" => ctxDone

C1_Witness ==
    \E off \in Fetched :
        /\ Returned("decode", off, "err")
        /\ Finished(off)
        /\ Count("commit", off) = 1
        /\ pc = "fetch"

\* C2: a fetched message that decodes is handed to ProcessAny at most once
\* and committed at most once, the commit coming after ProcessAny; once
\* processNextMessage has returned for it both were called exactly once,
\* whether ProcessAny returned an error or nil.
C2_ProcessOnceThenCommit ==
    \A off \in Fetched :
        Returned("decode", off, "ok") =>
            /\ Count("process", off) <= 1
            /\ Count("commit", off) <= 1
            /\ Count("commit", off) = 1 =>
                  /\ Count("process", off) = 1
                  /\ Pos("process", off) < Pos("commit", off)
            /\ Finished(off) => Count("commit", off) = 1

C2_Witness ==
    \E a, b \in Fetched :
        /\ Finished(a) /\ Returned("process", a, "err") /\ Count("commit", a) = 1
        /\ Finished(b) /\ Returned("process", b, "ok") /\ Count("commit", b) = 1

\* C3: fetches, decodes, process calls and commits each happen in offset
\* order, the commit of message n is attempted before message n+1 is
\* fetched, and at most one message is between its fetch and its commit.
C3_FetchOrder ==
    /\ \A i, j \in DOMAIN trace :
          (i < j /\ trace[i].op = trace[j].op) => trace[i].off < trace[j].off
    /\ \A i \in DOMAIN trace :
          (trace[i].op = "fetch" /\ trace[i].off > 0) =>
              \E j \in 1 .. (i - 1) :
                  trace[j].op = "commit" /\ trace[j].off = trace[i].off - 1
    /\ \A i \in DOMAIN trace :
          trace[i].op \in {"decode", "process", "commit"} =>
              \A j \in 1 .. (i - 1) :
                  trace[j].op = "fetch" => trace[j].off <= trace[i].off
    /\ Cardinality({off \in Fetched : Count("commit", off) = 0}) <= 1

C3_Witness ==
    /\ offset = 2
    /\ Count("commit", 0) = 1
    /\ Count("process", 1) = 1
    /\ pc = "commit"

C5_CancelReturnsNil ==
    pc = "returned" => (ctxDone /\ startRet = NilErr)

C5_Witness ==
    /\ pc = "returned"
    /\ closes = 0
    /\ err \in {ErrFatal, ErrCanceled}

\* C6: whenever Start has returned, the reader has been closed exactly once.
C6_ReturnedMeansClosed ==
    pc = "returned" => closes = 1

\* C7: after the reader reported a broker-connection failure the loop does
\* not go on: Start returns, and returns a non-nil error.
C7_FatalAborts ==
    err = ErrFatal =>
        /\ pc \in {"errcheck", "returned"}
        /\ pc = "returned" => startRet \notin {"none", NilErr}

\* C8 as stated: every message for which processNextMessage has returned has
\* exactly one ProcessingResult.
C8_OneResultPerMessage ==
    \A off \in Fetched : Finished(off) => Count("result", off) = 1

\* C8 amended: with the real processor a message has exactly one
\* ProcessingResult once ProcessAny has returned for it, failed exactly when
\* ProcessAny returned an error; a message that failed to decode has none,
\* and with the stub processor no message has one.
C8_OneResultPerProcessCall ==
    \A off \in Fetched :
        /\ Count("result", off) =
              (IF mode = "real" THEN Count("process", off) ELSE 0)
        /\ Returned("decode", off, "err") => Count("result", off) = 0
        /\ (mode = "real" /\ Finished(off) /\ Returned("decode", off, "ok")) =>
              Count("result", off) = 1
        /\ \A r \in {"ok", "err"} :
              Returned("result", off, r) => Returned("process", off, r)

C8_Witness ==
    /\ mode = "real"
    /\ \E a, b \in Fetched :
          /\ Finished(a) /\ Returned("result", a, "err")
          /\ Finished(b) /\ Returned("result", b, "ok")

\* the payload DecodeCommand was last called on
Decoded == PayloadList[msg.p]

\* the value a decoder hands back for the payload
CommandOf(format, data) ==
    IF format = FormatJSON THEN IfaceCmd(decodeJSON(data).val) ELSE IfaceCmd(data.pb)

Accepts(format, data) == IF format = FormatJSON THEN data.jsonOK ELSE data.pbOK

Other(format) == IF format = FormatJSON THEN FormatProtobuf ELSE FormatJSON

\* C9: DecodeCommand succeeds exactly when one of the two decoders accepts
\* the payload; when the preferred decoder accepts, its command is returned
\* and the other decoder is not called; otherwise, when the other decoder
\* accepts, the other decoder's command is returned.
C9_PreferredThenFallback ==
    (msg # NoMsg /\ dec # NoDec) =>
        /\ dec.err = NilErr <=> (Decoded.jsonOK \/ Decoded.pbOK)
        /\ Accepts(preferredFormat, Decoded) =>
              /\ dec.cmd = CommandOf(preferredFormat, Decoded)
              /\ dec.tried = <<preferredFormat>>
        /\ (~Accepts(preferredFormat, Decoded)
              /\ Accepts(Other(preferredFormat), Decoded)) =>
              /\ dec.cmd = CommandOf(Other(preferredFormat), Decoded)
              /\ dec.err = NilErr

C9_Witness ==
    /\ msg # NoMsg
    /\ dec # NoDec
    /\ preferredFormat = FormatProtobuf
    /\ ~Decoded.pbOK
    /\ Decoded.jsonOK
    /\ dec.err = NilErr
    /\ dec.cmd.val.command = COMMAND_TYPE_RESIZE

\* C10: for a payload valid in neither format DecodeCommand returns no
\* command and the "neither format" error, under either preferred format.
C10_NeitherError ==
    (msg # NoMsg /\ dec # NoDec /\ ~Decoded.jsonOK /\ ~Decoded.pbOK) =>
        /\ dec.cmd.ptr = "nil"
        /\ dec.err = ErrNeither

\* --------------------------------------------- claims on Process (SpecProcess)

\* Process has been called directly on the real processor
RealCall == call.fn = "Process" /\ mode = "real"

\* how often a call occurs in a sequence of calls
CountIn(calls, c) == Cardinality({i \in DOMAIN calls : calls[i] = c})

\* the observations of one metric made by the latest Process call
ObsOf(metric) == {i \in DOMAIN call.out.obs : call.out.obs[i].metric = metric}

\* C14: when the command has an empty id or an empty image_url, Process
\* returns one failed result with error_message set, together with a non-nil
\* error, and the call makes no download, no image operation and no upload.
C14_ValidateBeforeDownload ==
    (RealCall /\ (call.cmd.id = "" \/ call.cmd.image_url = "")) =>
        /\ Len(call.out.results) = 1
        /\ ~call.out.results[1].Success
        /\ call.out.results[1].ErrorMessage \in {ErrIDRequired, ErrURLRequired}
        /\ call.out.err # NilErr
        /\ call.out.calls = <<>>
        /\ call.out.uploads = <<>>
        /\ storage = call.before

C14_Witness ==
    /\ RealCall
    /\ call.cmd.id = ""
    /\ call.cmd.image_url # ""
    /\ call.env.downloadOK
    /\ call.env.uploadOK
    /\ call.out.err = ErrIDRequired

\* C15: a Process call that fails leaves no artifact of its own in storage,
\* and Upload is called at most once, only after validation, download, the
\* image operation and the PNG encoding have succeeded.
C15_NeverStoresOnFailure ==
    RealCall =>
        /\ CountIn(call.out.calls, "upload") <= 1
        /\ CountIn(call.out.calls, "upload") = 1 =>
              /\ call.cmd.id # ""
              /\ call.cmd.image_url # ""
              /\ call.env.downloadOK
              /\ Dispatch(call.cmd, call.env.img).err = NilErr
              /\ EncodePNG(Dispatch(call.cmd, call.env.img).img) = NilErr
              /\ call.out.calls[Len(call.out.calls)] = "upload"
        /\ call.out.err # NilErr =>
              /\ call.out.uploads = <<>>
              /\ storage = call.before

\* C16: a successful call of an operation other than ANALYZE uploads exactly
\* one artifact, under the key "{id}.png" made of the command id alone, and
\* the result's output location is the address Upload returned for that key.
C16_OneArtifactUnderIdPng ==
    (RealCall /\ call.out.err = NilErr /\ call.cmd.command # COMMAND_TYPE_ANALYZE) =>
        /\ CountIn(call.out.calls, "upload") = 1
        /\ call.out.uploads = << <<call.cmd.id, ".png">> >>
        /\ <<call.cmd.id, ".png">> \in storage
        /\ Len(call.out.results) = 1
        /\ call.out.results[1].Success
        /\ call.out.results[1].OutputUrl = StorageURL(<<call.cmd.id, ".png">>)

C16_Witness ==
    /\ RealCall
    /\ call.out.err = NilErr
    /\ call.cmd.command = COMMAND_TYPE_CROP
    /\ call.n = MaxCalls
    /\ call.before # {}

\* C17: every Process call, of the real and of the stub processor, makes
\* exactly one processed-count observation, tagged with the command type and
\* with "success" exactly when the call returns nil, "error" otherwise.
C17_OneProcessedCount ==
    call.fn = "Process" =>
        /\ Cardinality(ObsOf("processed")) = 1
        /\ \A i \in ObsOf("processed") :
              /\ call.out.obs[i].command = call.cmd.command
              /\ call.out.obs[i].status =
                    (IF call.out.err = NilErr THEN "success" ELSE "error")

C17_Witness ==
    /\ RealCall
    /\ call.out.err # NilErr
    /\ "encode" \in {call.out.calls[i] : i \in DOMAIN call.out.calls}
    /\ ObsOf("processed") # {}

\* C18: every Process call makes exactly one processing-duration
\* observation, whatever path it takes.
C18_OneDurationObservation ==
    call.fn = "Process" => Cardinality(ObsOf("duration")) = 1

\* C19 as stated: a command with id and image_url whose type is UNSPECIFIED
\* gets a failed result whose message is "unknown command type", and nothing
\* is stored.
C19_UnknownTypeFails ==
    (RealCall /\ call.cmd.id # "" /\ call.cmd.image_url # ""
        /\ call.cmd.command = COMMAND_TYPE_UNSPECIFIED) =>
        /\ Len(call.out.results) = 1
        /\ ~call.out.results[1].Success
        /\ call.out.results[1].ErrorMessage = ErrUnknownCommandType
        /\ call.out.uploads = <<>>
        /\ storage = call.before

\* C19 amended: the same, for a command whose image download succeeds; when
\* the download fails the result is failed with the download's error, and
\* nothing is stored either way.
C19_UnknownTypeFailsAfterDownload ==
    (RealCall /\ call.cmd.id # "" /\ call.cmd.image_url # ""
        /\ call.cmd.command = COMMAND_TYPE_UNSPECIFIED) =>
        /\ Len(call.out.results) = 1
        /\ ~call.out.results[1].Success
        /\ call.out.err # NilErr
        /\ call.env.downloadOK =>
              call.out.results[1].ErrorMessage = ErrUnknownCommandType
        /\ ~call.env.downloadOK =>
              call.out.results[1].ErrorMessage = "download failed"
        /\ call.out.uploads = <<>>
        /\ storage = call.before

C19_Witness ==
    /\ RealCall
    /\ call.cmd.id # ""
    /\ call.cmd.image_url # ""
    /\ call.cmd.command = COMMAND_TYPE_UNSPECIFIED
    /\ call.env.downloadOK
    /\ call.out.calls = <<"download">>

\* the resize requests geometric validation has to reject
BadResize(p) ==
    /\ p.kind = "resize"
    /\ (p.width = 0 /\ p.height = 0) \/ p.width < 0 \/ p.height < 0

\* the crop requests geometric validation has to reject, on image img
BadCrop(p, img) ==
    /\ p.kind = "crop"
    /\ \/ p.width <= 0
       \/ p.height <= 0
       \/ p.x < 0
       \/ p.y < 0
       \/ p.x + p.width > img.w
       \/ p.y + p.height > img.h

\* C20: a resize with both dimensions zero or with a negative dimension, and
\* a crop with a non-positive dimension or a region outside the image, is
\* rejected with an error before the imaging operation is called: the call
\* makes no imaging call and does not reach the encoder.
C20_GeometricRejectsBeforeOperation ==
    (RealCall /\ call.cmd.id # "" /\ call.cmd.image_url # "" /\ call.env.downloadOK
        /\ \/ (call.cmd.command = COMMAND_TYPE_RESIZE
                  /\ BadResize(call.cmd.parameters))
           \/ (call.cmd.command = COMMAND_TYPE_CROP
                  /\ BadCrop(call.cmd.parameters, call.env.img))) =>
        /\ call.out.err # NilErr
        /\ call.out.calls = <<"download">>

\* ------------------------------------- claims on DecodeCommand (SpecDecode)

\* DecodeCommand has been called directly and returned a command
DecodedOK == call.fn \in {"DecodeCommand", "encodeJSON"} /\ call.out.err = NilErr

\* the format whose decoder produced the command DecodeCommand returned
PathTaken == call.out.tried[Len(call.out.tried)]

\* the parameter variant that belongs to a command type
VariantOf(ct) ==
    CASE ct = COMMAND_TYPE_RESIZE -> "resize"
      [] ct = COMMAND_TYPE_FILTER -> "filter"
      [] ct = COMMAND_TYPE_TRANSFORM -> "transform"
      [] ct = COMMAND_TYPE_ANALYZE -> "analyze"
      [] ct = COMMAND_TYPE_CROP -> "crop"
      [] ct = COMMAND_TYPE_REMOVE_BACKGROUND -> "remove_background"
      [] OTHER -> "none"

\* type and active parameter variant agree: no parameters, or the type's own
Consistent(cmd) == cmd.parameters.kind \in {"none", VariantOf(cmd.command)}

\* C11 as stated: every command a successful DecodeCommand returns, through
\* the text or the binary path, has parameters that are absent or of the
\* variant of its type.
C11_TypeAndParametersConsistent ==
    DecodedOK => Consistent(call.out.cmd.val)

\* C11 amended: a command decoded through the text path has parameters that
\* are absent or of the variant of its type; a command decoded through the
\* binary path is the message the bytes encode, whatever its type and variant.
C11_TextPathConsistent ==
    DecodedOK =>
        /\ PathTaken = FormatJSON => Consistent(call.out.cmd.val)
        /\ PathTaken = FormatProtobuf => call.out.cmd.val = call.data.pb

C11_Witness ==
    /\ DecodedOK
    /\ PathTaken = FormatJSON
    /\ call.data.json.Command = "crop"
    /\ call.out.cmd.val.parameters.kind = "crop"
    /\ call.out.cmd.val.parameters.width = 3

\* C12: encoding a command with the producer's encodeJSON and decoding the
\* bytes gives a command with the same id, type and parameter fields.
C12_RoundTrip ==
    (call.fn = "encodeJSON" /\ Consistent(call.cmd)) =>
        /\ call.out.err = NilErr
        /\ call.out.cmd.val.id = call.cmd.id
        /\ call.out.cmd.val.command = call.cmd.command
        /\ call.out.cmd.val.parameters = call.cmd.parameters

\* the six command names and their types
CommandNames ==
    [resize |-> COMMAND_TYPE_RESIZE, filter |-> COMMAND_TYPE_FILTER,
     transform |-> COMMAND_TYPE_TRANSFORM, analyze |-> COMMAND_TYPE_ANALYZE,
     crop |-> COMMAND_TYPE_CROP, remove_background |-> COMMAND_TYPE_REMOVE_BACKGROUND]

\* the bytes are JSON text and the text decoder gets to see them
TextDecoded ==
    /\ call.fn = "DecodeCommand"
    /\ call.data.jsonOK
    /\ preferredFormat = FormatJSON \/ ~call.data.pbOK

\* C13: text decoding gives each of the six command names its command type,
\* with or without parameters, and gives any other command string the type
\* UNSPECIFIED and no parameters, without a decode error.
C13_CommandNames ==
    TextDecoded =>
        /\ call.out.err = NilErr
        /\ call.out.cmd.ptr = "set"
        /\ call.data.json.Command \in DOMAIN CommandNames =>
              call.out.cmd.val.command = CommandNames[call.data.json.Command]
        /\ call.data.json.Command \notin DOMAIN CommandNames =>
              /\ call.out.cmd.val.command = COMMAND_TYPE_UNSPECIFIED
              /\ call.out.cmd.val.parameters = NoParams
        /\ call.data.json.Parameters.isnil =>
              call.out.cmd.val.parameters = NoParams

C13_Witness ==
    /\ TextDecoded
    /\ preferredFormat = FormatProtobuf
    /\ call.data.json.Command = "unknown_type"
    /\ ~call.data.json.Parameters.isnil
    /\ call.out.cmd.val.command = COMMAND_TYPE_UNSPECIFIED

\* ------------------------------------ claims on the operations (SpecProcess)

\* the latest direct call reached the switch on the command type: it was made
\* on the real processor with id and image_url, and the download succeeded
Dispatched(ct) ==
    /\ RealCall
    /\ call.cmd.id # ""
    /\ call.cmd.image_url # ""
    /\ call.env.downloadOK
    /\ call.cmd.command = ct

\* what the switch produced for the latest call
Operated == Dispatch(call.cmd, call.env.img)

\* the position of a call in the calls of the latest Process call; 0 if absent
PosIn(c) ==
    IF CountIn(call.out.calls, c) = 0 THEN 0
    ELSE CHOOSE i \in DOMAIN call.out.calls : call.out.calls[i] = c

\* C21: a RESIZE with width W > 0, height H > 0 and maintain_aspect_ratio
\* false is done by one exact imaging.Resize, and the image that is encoded
\* has width W and height H, whatever the proportions of the source.
C21_ExactResize ==
    (Dispatched(COMMAND_TYPE_RESIZE) /\ call.cmd.parameters.kind = "resize"
        /\ call.cmd.parameters.width > 0 /\ call.cmd.parameters.height > 0
        /\ ~call.cmd.parameters.maintain_aspect_ratio) =>
        /\ Operated.err = NilErr
        /\ Operated.img.w = call.cmd.parameters.width
        /\ Operated.img.h = call.cmd.parameters.height
        /\ Len(call.out.calls) = 4
        /\ call.out.calls = <<"download", "Resize", "encode", "upload">>
        /\ call.env.uploadOK => call.out.err = NilErr

C21_Witness ==
    /\ Dispatched(COMMAND_TYPE_RESIZE)
    /\ call.cmd.parameters.kind = "resize"
    /\ call.cmd.parameters.width = 3
    /\ call.cmd.parameters.height = 3
    /\ ~call.cmd.parameters.maintain_aspect_ratio
    /\ call.env.img.w = 2
    /\ call.env.img.h = 4
    /\ call.out.err = NilErr

\* the crop region lies inside the source image
InBounds(p, img) ==
    /\ p.x >= 0
    /\ p.y >= 0
    /\ p.width > 0
    /\ p.height > 0
    /\ p.x + p.width <= img.w
    /\ p.y + p.height <= img.h

\* C22: a CROP whose region lies fully inside the source image succeeds, and
\* the image that is encoded has the region's width and height.
C22_CropInBounds ==
    (Dispatched(COMMAND_TYPE_CROP) /\ call.cmd.parameters.kind = "crop"
        /\ InBounds(call.cmd.parameters, call.env.img)) =>
        /\ Operated.err = NilErr
        /\ Operated.img.w = call.cmd.parameters.width
        /\ Operated.img.h = call.cmd.parameters.height
        /\ Len(call.out.calls) = 4
        /\ call.out.calls = <<"download", "Crop", "encode", "upload">>
        /\ call.env.uploadOK => call.out.err = NilErr

C22_Witness ==
    /\ Dispatched(COMMAND_TYPE_CROP)
    /\ call.cmd.parameters.kind = "crop"
    /\ call.cmd.parameters.x = 1
    /\ call.cmd.parameters.width = 3
    /\ call.cmd.parameters.height = 2
    /\ call.env.img.w = 4
    /\ call.out.err = NilErr

\* the crop region passes the right or the bottom edge of the source image
PastEdge(p, img) ==
    \/ p.x + p.width > img.w
    \/ p.y + p.height > img.h

\* C23 as stated: every CROP whose x + width exceeds the source width, or
\* whose y + height exceeds the source height, fails with the error "crop
\* region out of bounds", and nothing is stored.
C23_CropOutOfBounds ==
    (Dispatched(COMMAND_TYPE_CROP) /\ call.cmd.parameters.kind = "crop"
        /\ PastEdge(call.cmd.parameters, call.env.img)) =>
        /\ call.out.err = "crop region out of bounds"
        /\ ~call.out.results[1].Success
        /\ call.out.uploads = <<>>
        /\ storage = call.before

\* C23 amended: such a CROP fails and nothing is stored; the error is "crop
\* region out of bounds" when width and height are positive, and "crop width
\* and height must be positive" otherwise.
C23_CropOutOfBoundsPositive ==
    (Dispatched(COMMAND_TYPE_CROP) /\ call.cmd.parameters.kind = "crop"
        /\ PastEdge(call.cmd.parameters, call.env.img)) =>
        /\ call.out.err =
              (IF call.cmd.parameters.width > 0 /\ call.cmd.parameters.height > 0
               THEN "crop region out of bounds"
               ELSE "crop width and height must be positive")
        /\ ~call.out.results[1].Success
        /\ call.out.results[1].ErrorMessage = call.out.err
        /\ call.out.calls = <<"download">>
        /\ call.out.uploads = <<>>
        /\ storage = call.before

C23_Witness ==
    /\ Dispatched(COMMAND_TYPE_CROP)
    /\ call.cmd.parameters.kind = "crop"
    /\ call.cmd.parameters.x + call.cmd.parameters.width > call.env.img.w
    /\ call.cmd.parameters.width > 0
    /\ call.cmd.parameters.height > 0
    /\ call.env.uploadOK
    /\ call.out.err = "crop region out of bounds"

\* C24: TRANSFORM calls Rotate exactly when rotation_degrees is not 0, FlipH
\* exactly when flip_horizontal, FlipV exactly when flip_vertical, each at
\* most once, and always Rotate before FlipH before FlipV.
C24_TransformOrder ==
    (Dispatched(COMMAND_TYPE_TRANSFORM) /\ call.cmd.parameters.kind = "transform") =>
        /\ CountIn(call.out.calls, "Rotate") =
              (IF call.cmd.parameters.rotation_degrees # 0 THEN 1 ELSE 0)
        /\ CountIn(call.out.calls, "FlipH") =
              (IF call.cmd.parameters.flip_horizontal THEN 1 ELSE 0)
        /\ CountIn(call.out.calls, "FlipV") =
              (IF call.cmd.parameters.flip_vertical THEN 1 ELSE 0)
        /\ (PosIn("Rotate") > 0 /\ PosIn("FlipH") > 0) => PosIn("Rotate") < PosIn("FlipH")
        /\ (PosIn("Rotate") > 0 /\ PosIn("FlipV") > 0) => PosIn("Rotate") < PosIn("FlipV")
        /\ (PosIn("FlipH") > 0 /\ PosIn("FlipV") > 0) => PosIn("FlipH") < PosIn("FlipV")
        /\ PosIn("download") = 1
        /\ PosIn("encode") = Len(Operated.lib) + 2

C24_Witness ==
    /\ Dispatched(COMMAND_TYPE_TRANSFORM)
    /\ call.cmd.parameters.kind = "transform"
    /\ call.cmd.parameters.rotation_degrees = 180
    /\ call.cmd.parameters.flip_horizontal
    /\ call.cmd.parameters.flip_vertical
    /\ call.out.calls = <<"download", "Rotate", "FlipH", "FlipV", "encode", "upload">>

\* C25: ANALYZE on a command with id and image_url whose image downloads
\* returns a successful result with an empty output location and a nil
\* error; the call changes no image, encodes nothing and uploads nothing.
C25_AnalyzeNoMutation ==
    Dispatched(COMMAND_TYPE_ANALYZE) =>
        /\ call.out.err = NilErr
        /\ Len(call.out.results) = 1
        /\ call.out.results[1].Success
        /\ call.out.results[1].OutputUrl = NoURL
        /\ call.out.calls = <<"download">>
        /\ call.out.uploads = <<>>
        /\ storage = call.before

C25_Witness ==
    /\ Dispatched(COMMAND_TYPE_ANALYZE)
    /\ call.cmd.parameters.kind = "analyze"
    /\ ~call.env.uploadOK
    /\ call.out.err = NilErr

\* C26: ProcessAny given a value that is not an image command returns the
\* "invalid command type" error, which Process never returns, and does
\* nothing else: no result, metric, call, upload or recorded command; given
\* an image command it returns and does exactly what Process does with it.
C26_ProcessAnyTypeChecks ==
    /\ call.fn = "ProcessAny" =>
          IF call.iface.gotype = "*pb.ImageCommand"
          THEN call.out = Process(mode, call.iface.val, call.env)
          ELSE /\ call.out.err = ErrInvalidCommandType
               /\ call.out.results = <<>>
               /\ call.out.obs = <<>>
               /\ call.out.calls = <<>>
               /\ call.out.uploads = <<>>
               /\ storage = call.before
               /\ ProcessedCommands = call.recordedBefore
    /\ call.fn = "Process" => call.out.err # ErrInvalidCommandType

C26_Witness ==
    /\ call.fn = "ProcessAny"
    /\ call.iface.gotype = "string"
    /\ call.n = MaxCalls
    /\ call.out.err = ErrInvalidCommandType

\* C28: with the stub processor, GetProcessedCount is the number of Process
\* calls that returned nil and GetLastCommand the command of the latest of
\* them, nil when there is none; a call with an empty id or image_url
\* returns an error and leaves the recorded commands as they were; a command
\* of any of the six types with id and image_url is accepted.
C28_StubRecordsAccepted ==
    mode = "stub" =>
        /\ GetProcessedCount(ProcessedCommands) = call.nils
        /\ GetLastCommand(ProcessedCommands) =
              (IF call.nils = 0 THEN [ptr |-> "nil", val |-> ZeroCommand]
               ELSE [ptr |-> "set", val |-> call.lastNil])
        /\ call.fn = "Process" =>
              /\ (call.cmd.id = "" \/ call.cmd.image_url = "") =>
                    /\ call.out.err # NilErr
                    /\ ProcessedCommands = call.recordedBefore
              /\ (call.cmd.id # "" /\ call.cmd.image_url # ""
                    /\ call.cmd.command # COMMAND_TYPE_UNSPECIFIED) =>
                    /\ call.out.err = NilErr
                    /\ ProcessedCommands = Append(call.recordedBefore, call.cmd)

C28_Witness ==
    /\ mode = "stub"
    /\ call.fn = "Process"
    /\ call.n = MaxCalls
    /\ call.cmd.id = ""
    /\ call.nils = 1
    /\ Len(ProcessedCommands) = 1

\* C30: in every Process call of the real processor the returned error is
\* non-nil exactly when the result's Success is false, and exactly when its
\* ErrorMessage is not empty; there is always a result, and its CommandID is
\* the command's id.
C30_FailureSignalsAgree ==
    RealCall =>
        /\ Len(call.out.results) = 1
        /\ call.out.results[1].CommandID = call.cmd.id
        /\ call.out.err # NilErr <=> ~call.out.results[1].Success
        /\ call.out.err # NilErr <=> call.out.results[1].ErrorMessage # ""

C30_Witness ==
    /\ RealCall
    /\ call.out.err # NilErr
    /\ call.out.results[1].ErrorMessage = "upload failed"
    /\ call.cmd.id = "a"

\* ------------------------------------------ claims on the API (SpecServer)

\* POST /send has been answered
Sent == server.path = "/send"

\* the fields of the request fail validation as the claim lists it
FieldsMissing(req) ==
    \/ req.ID = ""
    \/ req.Command = ""
    \/ req.ImageURL = ""
    \/ req.Command \notin DOMAIN CommandNames

\* C27: POST /send answers 400 to a body that is not well-formed JSON, 400
\* to JSON whose id, command or image_url is missing or whose command is not
\* one of the six names, a 5xx status when the producer's send fails, and
\* 201 with the request's id when it succeeds; the producer is called only
\* for a request that was decoded and passes validation.
C27_SendStatuses ==
    Sent =>
        /\ ~server.req.wellFormed => server.resp.status = StatusBadRequest
        /\ (server.req.decodeOK /\ FieldsMissing(server.req.v)) =>
              server.resp.status = StatusBadRequest
        /\ server.sendFailed =>
              /\ server.resp.status >= StatusInternalServerError
              /\ server.resp.status < StatusInternalServerError + 100
        /\ (server.sendCalled /\ ~server.sendFailed) =>
              /\ server.resp.status = StatusCreated
              /\ server.resp.id = server.req.v.ID
        /\ server.resp.status = StatusCreated => server.sendCalled /\ ~server.sendFailed
        /\ server.sendCalled =>
              /\ server.req.decodeOK
              /\ ~FieldsMissing(server.req.v)
              /\ server.sentCmd.id = server.req.v.ID

Adjusted ==
    /\ Dispatched(COMMAND_TYPE_FILTER)
    /\ call.cmd.parameters.kind = "filter"
    /\ call.cmd.parameters.filter_type \in AdjustFilters
    /\ call.cmd.parameters.intensity >= 0
    /\ call.cmd.parameters.intensity <= 100

\* the adjustment processFilter hands to the library for the filter of the
\* latest call at another intensity
AdjustmentAt(i) ==
    processFilter(call.env.img,
                  FilterParameters(call.cmd.parameters.filter_type, i)).arg

\* C31: for brightness, contrast and saturation the adjustment stays within
\* [-100, 100], is zero at intensity 0.5, and is monotonically non-decreasing
\* over intensities in [0, 1], intensity 0 included: no smaller intensity of
\* the range gives a larger adjustment.
C31_AdjustmentMonotonic ==
    Adjusted =>
        /\ Operated.err = NilErr
        /\ Operated.arg >= -100
        /\ Operated.arg <= 100
        /\ call.cmd.parameters.intensity = 50 => Operated.arg = 0
        /\ \A j \in Intensities :
              (j >= 0 /\ j <= call.cmd.parameters.intensity) =>
                  AdjustmentAt(j) <= Operated.arg

\* C32: every CommitMessages call is for a message that was fetched, and
\* comes after DecodeCommand returned for that message and, when the decoding
\* succeeded, after ProcessAny returned for it; a message that is being
\* decoded or processed has not been committed.
C32_CommitAfterProcessing ==
    /\ \A i \in DOMAIN trace :
          trace[i].op = "commit" =>
              /\ trace[i].off \in Fetched
              /\ \E j \in 1 .. (i - 1) : trace[j] = Event("fetch", trace[i].off, "ok")
              /\ \E k \in 1 .. (i - 1) :
                    /\ trace[k].op = "decode"
                    /\ trace[k].off = trace[i].off
                    /\ trace[k].res = "ok" =>
                          \E l \in (k + 1) .. (i - 1) :
                              trace[l].op = "process" /\ trace[l].off = trace[i].off
    /\ pc \in {"decode", "process"} =>
          /\ msg.off \in Fetched
          /\ Count("commit", msg.off) = 0

C32_Witness ==
    /\ pc = "process"
    /\ msg.off = 1
    /\ Returned("decode", 0, "ok")
    /\ Returned("process", 0, "err")
    /\ Count("commit", 0) = 1
    /\ Pos("process", 0) < Pos("commit", 0)

\* C33: once the context is cancelled Start eventually returns; a select at
\* the top of the loop that finds the context cancelled returns at once,
\* closing the reader, and after Start has returned no message is fetched.
C33_StartReturnsAfterCancel ==
    /\ ctxDone ~> pc = "returned"
    /\ [][(pc = "select" /\ ctxDone) => (pc' = "returned" /\ closes' = closes + 1)]_vars
    /\ [][pc = "returned" =>
            (pc' = "returned" /\ offset' = offset /\ trace' = trace)]_vars

C33_Witness ==
    /\ pc = "returned"
    /\ ctxDone
    /\ closes = 1
    /\ offset = 2
    /\ Count("commit", 1) = 1
    /\ Returned("process", 1, "err")

\* C34: when Run has returned after a shutdown signal, the consumer goroutine
\* has ended: Start has returned, no message is between its fetch and its
\* commit, and the reader has been closed.
C34_RunReturnsAfterConsumer ==
    (app.run = "returned" /\ ctxDone) =>
        /\ app.consumer = "done"
        /\ pc = "returned"
        /\ msg = NoMsg
        /\ closes = 1

C36_CountedIffCreated ==
    /\ [][SendHandler =>
            /\ server'.resp.status = StatusCreated =>
                  server'.messagesCount = server.messagesCount + 1
            /\ server'.resp.status # StatusCreated =>
                  /\ server'.messagesCount = server.messagesCount
                  /\ server'.resp.status \in {StatusBadRequest, StatusInternalServerError}
            /\ server'.sendFailed => server'.messagesCount = server.messagesCount]_vars
    /\ [][(HealthHandler \/ ReadyHandler \/ StatsHandler) =>
            /\ server'.messagesCount = server.messagesCount
            /\ server'.increments = server.increments]_vars

C36_Witness ==
    /\ server.path = "/stats"
    /\ server.requests = MaxRequests
    /\ server.resp.messages = 1
    /\ server.messagesCount = 1
    /\ server.producer = "set"
    /\ server.req.decodeOK
    /\ server.req.wellFormed
    /\ ValidateStruct(server.req.v)

====
